---- MODULE Spec2Model ----
(***************************************************************************)
(* Model of the openCLI local-model adapter:                               *)
(*   - the model registry            (packages/core/src/config/models.ts)  *)
(*   - the backend selector          (packages/core/src/core/              *)
(*                                    contentGenerator.ts)                  *)
(*   - the request translator, the response reconciler and the per-call    *)
(*     state machine of LocalContentGenerator                              *)
(*                                    (localContentGenerator.ts)           *)
(* JavaScript strings that the code inspects character by character are    *)
(* sequences of one-character strings; `undefined` is the string           *)
(* "undefined" where a field may be absent.                                *)
(***************************************************************************)
EXTENDS Integers, Sequences, FiniteSets, TLC

VARIABLES
    \* ---- backend selector (contentGenerator.ts) ----
    selPc,                  \* "start" | "checkingModel" | "configured" |
                            \* "probing" | "created" | "failed"
    selInput,               \* arguments of createContentGeneratorConfig + process.env
    contentGeneratorConfig, \* the ContentGeneratorConfig built by createContentGeneratorConfig
    selBackend,             \* what createContentGenerator returned or threw
    selWarned,              \* the startup probe failed and the warning was printed
    regQuery,               \* last identifier handed to the registry functions
    regCaps,                \* getModelCapabilities(regQuery)
    regLocal                \* isLocalModel(regQuery)

selVars == <<selPc, selInput, contentGeneratorConfig, selBackend, selWarned,
             regQuery, regCaps, regLocal>>

VARIABLES
    \* ---- request translator (convertToOpenAIFormat) ----
    trPc,                   \* "ready" | "translated"
    trRequest,              \* the GenerateContentParameters handed in
    openAIRequest           \* the wire request built from it

trVars == <<trPc, trRequest, openAIRequest>>

VARIABLES
    \* ---- response reconciler (convertFromOpenAIFormat) ----
    rcPc,                   \* "ready" | "reconciled"
    rcData,                 \* the wire response body
    rcResponse              \* the GenerateContentResponse built from it

rcVars == <<rcPc, rcData, rcResponse>>

VARIABLES
    \* ---- local backend adapter (LocalContentGenerator) ----
    gen,                    \* the instance: endpoint, model, timeout
    pc,                     \* where the current call is
    op,                     \* "generateContent" | "generateContentStream"
    callRequest,            \* the call's GenerateContentParameters
    sentBody,               \* the body of the POST, once issued
    gets,                   \* GET /v1/models issued by this call
    posts,                  \* POST /v1/chat/completions issued by this call
    clock,                  \* ticks since the pending request was issued
    probeScript,            \* what the server does with the GET
    probeAnswer,            \* checkConnection's answer ("pending" before it)
    postScript,             \* what the server does with the POST
    responseStatus,         \* response.status once fetch has resolved, else 0
    result,                 \* what the call returned or threw
    chunks                  \* what the stream's generator has yielded

adVars == <<gen, pc, op, callRequest, sentBody, gets, posts, clock, probeScript,
            probeAnswer, postScript, responseStatus, result, chunks>>

VARIABLES
    \* ---- overlapping calls on one LocalContentGenerator ----
    calls,                  \* per caller: the locals of its generateContent call
    constructed             \* the instance as its constructor left it

ovVars == <<calls, constructed>>

vars == <<selVars, trVars, rcVars, adVars, ovVars>>

UNDEF == "undefined"

(***************************************************************************)
(* Model registry: models.ts                                               *)
(***************************************************************************)
DEFAULT_QWEN_MODEL == "qwen3-30b-a3b-dwq-05082025"
DEFAULT_LOCAL_ENDPOINT == "http://127.0.0.1:1234"
DEFAULT_GEMINI_MODEL == "gemini-2.5-pro"
DEFAULT_GEMINI_FLASH_MODEL == "gemini-2.5-flash"

QwenContextWindow == 131072
GeminiContextWindow == 1048576
DefaultContextWindow == 4096

Descriptor(cw, thinking, tools, local, provider) ==
    [contextWindow |-> cw, supportsThinking |-> thinking, supportsTools |-> tools,
     isLocal |-> local, provider |-> provider]

\* The own properties of the MODEL_CAPABILITIES object literal.
MODEL_CAPABILITIES ==
    [k \in {"qwen3-30b-a3b", "qwen3-30b-a3b-dwq-05082025", "gemini-2.5-pro"} |->
        CASE k = "qwen3-30b-a3b" ->
                Descriptor(QwenContextWindow, TRUE, TRUE, TRUE, "lm-studio")
          [] k = "qwen3-30b-a3b-dwq-05082025" ->
                Descriptor(QwenContextWindow, TRUE, TRUE, TRUE, "lm-studio")
          [] k = "gemini-2.5-pro" ->
                Descriptor(GeminiContextWindow, TRUE, TRUE, FALSE, "google")]

\* MODEL_CAPABILITIES is a plain object literal, so a property read also finds
\* what it inherits from Object.prototype (all of them truthy, none a descriptor).
ObjectPrototypeKeys ==
    {"constructor", "toString", "toLocaleString", "valueOf", "hasOwnProperty",
     "isPrototypeOf", "propertyIsEnumerable", "__proto__", "__defineGetter__",
     "__defineSetter__", "__lookupGetter__", "__lookupSetter__"}

DefaultDescriptor == Descriptor(DefaultContextWindow, FALSE, TRUE, FALSE, "unknown")

\* MODEL_CAPABILITIES[model as keyof typeof MODEL_CAPABILITIES]
\*   kind "descriptor": an own entry; "inherited": a member of Object.prototype;
\*   "undefined": no such property.
TableLookup(model) ==
    IF model \in DOMAIN MODEL_CAPABILITIES
    THEN [kind |-> "descriptor", desc |-> MODEL_CAPABILITIES[model], member |-> UNDEF]
    ELSE IF model \in ObjectPrototypeKeys
    THEN [kind |-> "inherited", desc |-> DefaultDescriptor, member |-> model]
    ELSE [kind |-> "undefined", desc |-> DefaultDescriptor, member |-> UNDEF]

\* MODEL_CAPABILITIES[model]?.isLocal ?? false
isLocalModel(model) ==
    LET e == TableLookup(model)
    IN  IF e.kind = "descriptor" THEN e.desc.isLocal ELSE FALSE

\* MODEL_CAPABILITIES[model] || { ...default descriptor... }
\* The result is the looked-up value when it is truthy: an own descriptor, or the
\* inherited Object.prototype member (kind "inherited", which is no descriptor).
getModelCapabilities(model) ==
    LET e == TableLookup(model)
    IN  IF e.kind = "undefined"
        THEN [kind |-> "descriptor", desc |-> DefaultDescriptor, member |-> UNDEF]
        ELSE e

(***************************************************************************)
(* Backend selector: contentGenerator.ts                                   *)
(***************************************************************************)
LOGIN_WITH_GOOGLE_PERSONAL == "oauth-personal"
USE_GEMINI == "gemini-api-key"
USE_VERTEX_AI == "vertex-ai"
USE_LOCAL_MODEL == "local-model"

DefaultTimeoutMs == 30000
ProbeTimeoutMs == 5000

\* a || b on strings: "" and undefined are falsy
OrElse(a, b) == IF a = UNDEF \/ a = "" THEN b ELSE a

\* Inputs of the selector.
ModelIds ==
    {"qwen3-30b-a3b", "qwen3-30b-a3b-dwq-05082025", "gemini-2.5-pro",
     "gemini-2.5-flash", "llama-3-8b", "toString", "isPrototypeOf", ""}
AuthInputs ==
    {LOGIN_WITH_GOOGLE_PERSONAL, USE_GEMINI, USE_VERTEX_AI, USE_LOCAL_MODEL,
     UNDEF, "cloud-shell"}
CustomEndpoint == "http://10.0.0.5:8080"

\* The environment holds each variable unset, empty or set; of the three
\* Vertex variables at most one is left unset or empty.
SelInputs ==
    {in \in [model : {UNDEF, "qwen3-30b-a3b", "gemini-2.5-pro", "llama-3-8b",
                      "toString", ""},
             authType : AuthInputs,
             getModel : {UNDEF, "qwen3-30b-a3b-dwq-05082025", "gemini-2.5-flash"},
             GEMINI_API_KEY : {UNDEF, "", "key-g"},
             GOOGLE_API_KEY : {UNDEF, "", "key-v"},
             GOOGLE_CLOUD_PROJECT : {UNDEF, "", "p"},
             GOOGLE_CLOUD_LOCATION : {UNDEF, "", "l"},
             LOCAL_MODEL_ENDPOINT : {UNDEF, CustomEndpoint}] :
        Cardinality({k \in {"GOOGLE_API_KEY", "GOOGLE_CLOUD_PROJECT",
                            "GOOGLE_CLOUD_LOCATION"} : in[k] \in {UNDEF, ""}}) <= 1}

NoConfig ==
    [model |-> UNDEF, authType |-> UNDEF, localEndpoint |-> UNDEF,
     apiKey |-> UNDEF, vertexai |-> FALSE]

NoBackend ==
    [kind |-> "none", endpoint |-> UNDEF, model |-> UNDEF, timeout |-> 0,
     authType |-> UNDEF]

\* getEffectiveModel(apiKey, model) of modelCheck.ts: the model itself, or the
\* flash model when the default pro model is rate limited.
getEffectiveModel(model) ==
    IF model = DEFAULT_GEMINI_MODEL
    THEN {model, DEFAULT_GEMINI_FLASH_MODEL}
    ELSE {model}

\* config?.getModel?.() || model || (authType === USE_LOCAL_MODEL ? qwen : gemini)
EffectiveModel(in) ==
    OrElse(in.getModel,
           OrElse(in.model,
                  IF in.authType = USE_LOCAL_MODEL
                  THEN DEFAULT_QWEN_MODEL ELSE DEFAULT_GEMINI_MODEL))

\* isLocalModel(effectiveModel) || authType === AuthType.USE_LOCAL_MODEL
M_SelectsLocal_AuthOnly(effectiveModel, authType) ==
    authType = USE_LOCAL_MODEL

SelectsLocal(effectiveModel, authType) ==
    isLocalModel(effectiveModel) \/ authType = USE_LOCAL_MODEL

\* Truthiness of a string or undefined
Truthy(a) == a # UNDEF /\ a # ""

\* createContentGeneratorConfig(model, authType, config) up to its return or to
\* its await of getEffectiveModel (lines 91, 107): the config built so far, and
\* whether the model check is awaited.
ConfigFor(in) ==
    LET effectiveModel == EffectiveModel(in)
        localEndpoint == OrElse(in.LOCAL_MODEL_ENDPOINT, DEFAULT_LOCAL_ENDPOINT)
        base == [model |-> effectiveModel, authType |-> in.authType,
                 localEndpoint |-> localEndpoint, apiKey |-> UNDEF,
                 vertexai |-> FALSE]
        returned(config) == [config |-> config, checksModel |-> FALSE]
        awaiting(config) == [config |-> config, checksModel |-> TRUE]
    IN  IF SelectsLocal(effectiveModel, in.authType)
        THEN returned([base EXCEPT !.authType = USE_LOCAL_MODEL,
                                   !.localEndpoint = localEndpoint])
        ELSE IF in.authType = LOGIN_WITH_GOOGLE_PERSONAL
        THEN returned(base)
        ELSE IF in.authType = USE_GEMINI /\ Truthy(in.GEMINI_API_KEY)
        THEN awaiting([base EXCEPT !.apiKey = in.GEMINI_API_KEY])
        ELSE IF in.authType = USE_VERTEX_AI /\ Truthy(in.GOOGLE_API_KEY)
                /\ Truthy(in.GOOGLE_CLOUD_PROJECT)
                /\ Truthy(in.GOOGLE_CLOUD_LOCATION)
        THEN awaiting([base EXCEPT !.apiKey = in.GOOGLE_API_KEY,
                                   !.vertexai = TRUE])
        ELSE returned(base)

\* Lines 55-115: the function runs to its return, or to the await of
\* getEffectiveModel with apiKey (and vertexai) already written.
createContentGeneratorConfig ==
    /\ selPc = "start"
    /\ contentGeneratorConfig' = ConfigFor(selInput).config
    /\ selPc' = IF ConfigFor(selInput).checksModel THEN "checkingModel"
                ELSE "configured"
    /\ UNCHANGED <<selInput, selBackend, selWarned, regQuery, regCaps, regLocal>>

\* Lines 91-96, 107-112: getEffectiveModel resolves; the model is written and
\* the config returned.
getEffectiveModelResolves ==
    /\ selPc = "checkingModel"
    /\ \E m \in getEffectiveModel(contentGeneratorConfig.model) :
          contentGeneratorConfig' = [contentGeneratorConfig EXCEPT !.model = m]
    /\ selPc' = "configured"
    /\ UNCHANGED <<selInput, selBackend, selWarned, regQuery, regCaps, regLocal>>

\* new LocalContentGenerator({endpoint, model, timeout}): the constructor
LocalContentGenerator(endpoint, model, timeout) ==
    [kind |-> "local",
     endpoint |-> OrElse(endpoint, DEFAULT_LOCAL_ENDPOINT),
     model |-> model,
     timeout |-> IF timeout = 0 THEN DefaultTimeoutMs ELSE timeout,
     authType |-> UNDEF]

\* createCodeAssistContentGenerator(httpOptions, authType) of codeAssist.ts: the
\* cloud backend for the personal Google login, an alternative backend selection.
createCodeAssistContentGenerator(authType) ==
    [NoBackend EXCEPT !.kind = "codeAssist", !.authType = authType]

M_BackendFor_ProbeRequired(config, isConnected) ==
    IF config.authType = USE_LOCAL_MODEL /\ isConnected
    THEN LocalContentGenerator(OrElse(config.localEndpoint, DEFAULT_LOCAL_ENDPOINT),
                               config.model, DefaultTimeoutMs)
    ELSE IF config.authType = LOGIN_WITH_GOOGLE_PERSONAL
    THEN createCodeAssistContentGenerator(config.authType)
    ELSE IF config.authType \in {USE_GEMINI, USE_VERTEX_AI}
    THEN [NoBackend EXCEPT !.kind = "googleGenAI", !.authType = config.authType]
    ELSE [NoBackend EXCEPT !.kind = "error", !.authType = config.authType]

\* createContentGenerator(config); isConnected is the startup probe's answer.
\* kind "error" is the throw of line 170, whose message names config.authType.
BackendFor(config, isConnected) ==
    IF config.authType = USE_LOCAL_MODEL
    THEN LocalContentGenerator(OrElse(config.localEndpoint, DEFAULT_LOCAL_ENDPOINT),
                               config.model, DefaultTimeoutMs)
    ELSE IF config.authType = LOGIN_WITH_GOOGLE_PERSONAL
    THEN createCodeAssistContentGenerator(config.authType)
    ELSE IF config.authType \in {USE_GEMINI, USE_VERTEX_AI}
    THEN [NoBackend EXCEPT !.kind = "googleGenAI", !.authType = config.authType]
    ELSE [NoBackend EXCEPT !.kind = "error", !.authType = config.authType]

\* Lines 118-138, 150-172: createContentGenerator runs to its return or throw,
\* or, for the local auth mode, to the await of the startup probe with the
\* adapter constructed and the GET issued.
createContentGenerator ==
    /\ selPc = "configured"
    /\ IF contentGeneratorConfig.authType = USE_LOCAL_MODEL
       THEN /\ selPc' = "probing"
            /\ UNCHANGED selBackend
       ELSE /\ selBackend' = BackendFor(contentGeneratorConfig, FALSE)
            /\ selPc' = IF selBackend'.kind = "error" THEN "failed" ELSE "created"
    /\ UNCHANGED <<selInput, contentGeneratorConfig, selWarned, regQuery, regCaps,
                   regLocal>>

\* Lines 138-147: checkConnection has answered; a warning when it answered
\* false, and the adapter is returned.
StartupProbeSettles ==
    /\ selPc = "probing"
    /\ \E isConnected \in BOOLEAN :
          /\ selBackend' = BackendFor(contentGeneratorConfig, isConnected)
          /\ selWarned' = ~isConnected
    /\ selPc' = IF selBackend'.kind = "error" THEN "failed" ELSE "created"
    /\ UNCHANGED <<selInput, contentGeneratorConfig, regQuery, regCaps, regLocal>>

\* A caller asks the registry about an identifier.
RegistryLookup ==
    /\ \E m \in ModelIds :
          /\ regQuery' = m
          /\ regCaps' = getModelCapabilities(m)
          /\ regLocal' = isLocalModel(m)
    /\ UNCHANGED <<selPc, selInput, contentGeneratorConfig, selBackend, selWarned>>

(***************************************************************************)
(* Text helpers: JavaScript strings as sequences of characters             *)
(***************************************************************************)
\* A character that a TLA+ string cannot spell is written by its code point
\* ("U+000B"); tab, line feed, form feed and carriage return are "\t", "\n",
\* "\f", "\r".
\* The white space and line terminators that String.prototype.trim removes.
WhiteSpace ==
    {"\t", "\n", "U+000B", "\f", "\r", " ", "U+00A0", "U+1680", "U+2000", "U+2001",
     "U+2002", "U+2003", "U+2004", "U+2005", "U+2006", "U+2007", "U+2008",
     "U+2009", "U+200A", "U+2028", "U+2029", "U+202F", "U+205F", "U+3000",
     "U+FEFF"}

RECURSIVE TrimStart(_)
TrimStart(s) ==
    IF s # <<>> /\ Head(s) \in WhiteSpace THEN TrimStart(Tail(s)) ELSE s

RECURSIVE TrimEnd(_)
TrimEnd(s) ==
    IF s # <<>> /\ s[Len(s)] \in WhiteSpace
    THEN TrimEnd(SubSeq(s, 1, Len(s) - 1)) ELSE s

\* String.prototype.trim
Trim(s) == TrimEnd(TrimStart(s))

\* Array.prototype.join with a one-character separator
RECURSIVE Join(_, _)
Join(texts, sep) ==
    IF texts = <<>> THEN <<>>
    ELSE IF Len(texts) = 1 THEN texts[1]
    ELSE texts[1] \o <<sep>> \o Join(Tail(texts), sep)

\* Array.prototype.map
MapSeq(s, Op(_)) == [i \in 1..Len(s) |-> Op(s[i])]

(***************************************************************************)
(* Request translator: LocalContentGenerator.convertToOpenAIFormat         *)
(***************************************************************************)
\* The fixed system prompt, kept as one token.
SystemPrompt ==
    <<"You are a helpful AI assistant with access to tools. When asked to create files, use the write_file tool. When asked to run commands, use the run_shell_command tool. Use the appropriate tools to complete user requests.">>

MaxOutputTokens == 16384

\* The names line 177 lets through.
ALLOW_LIST ==
    {"list_directory", "read_file", "search_file_content", "glob", "write_file",
     "replace", "run_shell_command"}

M_Allowed_All(name) == TRUE

Allowed(name) == name \in ALLOW_LIST

\* A parameter schema: kind "undefined" (func.parameters missing) or "object"
\* with its own enumerable properties as <<key, value>> pairs.
Schema(kind, fields) == [kind |-> kind, fields |-> fields]

\* { type: 'object', properties: {} }
EmptyObjectSchema == Schema("object", {<<"type", "object">>, <<"properties", "{}">>})

M_WireParameters_AsIs(parameters) == parameters

\* func.parameters && Object.keys(func.parameters).length > 0
\*     ? func.parameters : { type: 'object', properties: {} }
WireParameters(parameters) ==
    IF parameters.kind = "object" /\ Cardinality(parameters.fields) > 0
    THEN parameters
    ELSE EmptyObjectSchema

\* tools.push({ type: 'function', function: { name, description, parameters } })
WireTool(func) ==
    [type |-> "function",
     function |-> [name |-> func.name,
                   description |-> func.description,
                   parameters |-> WireParameters(func.parameters)]]

\* The two nested loops of lines 170-194: every declaration of every group that
\* has a functionDeclarations array, in order.
RECURSIVE Declarations(_)
Declarations(groups) ==
    IF groups = <<>> THEN <<>>
    ELSE (IF Head(groups).hasDeclarations
          THEN Head(groups).functionDeclarations ELSE <<>>)
         \o Declarations(Tail(groups))

WireTools(groups) ==
    MapSeq(SelectSeq(Declarations(groups), LAMBDA func : Allowed(func.name)), WireTool)

\* part.text || ''
PartText(part) == IF part.hasText THEN part.text ELSE <<>>

\* content.parts.map(part => part.text || '').join('\n')
ContentText(content) == Join(MapSeq(content.parts, PartText), "\n")

\* Lines 147-155: one message per Content that has a role, parts and text that
\* is not blank.
RECURSIVE ContentMessages(_)
ContentMessages(contents) ==
    IF contents = <<>> THEN <<>>
    ELSE LET content == Head(contents)
             role == IF content.role = "model" THEN "assistant" ELSE content.role
             keep == /\ content.role # UNDEF /\ content.role # ""
                     /\ content.hasParts
                     /\ Trim(ContentText(content)) # <<>>
         IN  (IF keep THEN <<[role |-> role, content |-> ContentText(content)]>>
              ELSE <<>>)
             \o ContentMessages(Tail(contents))

\* Lines 143-157.
RequestMessages(request) ==
    IF request.contentsKind = "string"
    THEN IF request.text # <<>>
         THEN <<[role |-> "user", content |-> request.text]>> ELSE <<>>
    ELSE IF request.contentsKind = "array"
    THEN ContentMessages(request.contents)
    ELSE <<>>

convertToOpenAIFormat(request, model) ==
    LET messages == <<[role |-> "system", content |-> SystemPrompt]>>
                    \o RequestMessages(request)
        tools == IF request.hasTools THEN WireTools(request.tools) ELSE <<>>
        attach == Len(tools) > 0
    IN  [model |-> model,
         messages |-> messages,
         temperature |-> "0.7",
         max_tokens |-> MaxOutputTokens,
         top_p |-> "0.9",
         hasTools |-> attach,
         tools |-> tools,
         tool_choice |-> IF attach THEN "auto" ELSE UNDEF]

NoWireRequest ==
    [model |-> UNDEF, messages |-> <<>>, temperature |-> UNDEF, max_tokens |-> 0,
     top_p |-> UNDEF, hasTools |-> FALSE, tools |-> <<>>, tool_choice |-> UNDEF]

\* ---- the requests the translator is run on ----
MaxDecls == 2

NoParams == Schema("undefined", {})
EmptyParams == Schema("object", {})
FullParams ==
    Schema("object", {<<"type", "OBJECT">>, <<"properties", "{path}">>,
                      <<"required", "[path]">>})

DeclInputs ==
    [name : ALLOW_LIST \cup {"web_fetch", "save_memory"},
     description : {"d"},
     parameters : {NoParams, EmptyParams, FullParams}]

DeclSeqs == UNION {[1..n -> DeclInputs] : n \in 0..MaxDecls}

Group(decls) == [hasDeclarations |-> TRUE, functionDeclarations |-> decls]
NoDeclGroup == [hasDeclarations |-> FALSE, functionDeclarations |-> <<>>]

\* config.tools built from the declarations f: in one group (k = 0), in one
\* group after a group without functionDeclarations (k = MaxDecls), or split
\* into two groups after the k-th declaration.
ToolsOf(f, k) ==
    [hasTools |-> TRUE,
     tools |-> IF k = 0 THEN <<Group(f)>>
               ELSE IF k = MaxDecls THEN <<NoDeclGroup, Group(f)>>
               ELSE LET cut == IF k > Len(f) THEN Len(f) ELSE k
                    IN  <<Group(SubSeq(f, 1, cut)),
                          Group(SubSeq(f, cut + 1, Len(f)))>>]

Part(text) == [hasText |-> TRUE, text |-> text]
NoTextPart == [hasText |-> FALSE, text |-> <<>>]
Content(role, parts) == [role |-> role, hasParts |-> TRUE, parts |-> parts]

ContentInputs ==
    {Content("user", <<Part(<<"h", "i">>)>>),
     Content("model", <<Part(<<"o", "k">>)>>),
     Content("system", <<Part(<<"s">>)>>),
     Content("user", <<Part(<<" ", "\n">>)>>),
     Content("user", <<Part(<<"\f", "U+00A0">>)>>),
     Content("user", <<Part(<<>>), NoTextPart>>),
     Content("user", <<Part(<<"a">>), NoTextPart, Part(<<"b", " ">>)>>),
     Content("user", <<>>),
     Content(UNDEF, <<Part(<<"x">>)>>),
     [role |-> "user", hasParts |-> FALSE, parts |-> <<>>]}

MaxTurns == 2

ContentsInputs ==
    {[contentsKind |-> UNDEF, text |-> <<>>, contents |-> <<>>]}
    \cup {[contentsKind |-> "string", text |-> t, contents |-> <<>>] :
             t \in {<<>>, <<"h", "i">>, <<" ">>, <<"\f">>}}
    \cup {[contentsKind |-> "array", text |-> <<>>, contents |-> c] :
             c \in UNION {[1..n -> ContentInputs] : n \in 0..MaxTurns}}

Request(c, t) ==
    [contentsKind |-> c.contentsKind, text |-> c.text, contents |-> c.contents,
     hasTools |-> t.hasTools, tools |-> t.tools]

HiContents ==
    [contentsKind |-> "array", text |-> <<>>,
     contents |-> <<Content("user", <<Part(<<"h", "i">>)>>)>>]

FewTools ==
    {[hasTools |-> FALSE, tools |-> <<>>],
     [hasTools |-> TRUE, tools |-> <<>>],
     [hasTools |-> TRUE, tools |-> <<NoDeclGroup>>],
     [hasTools |-> TRUE,
      tools |-> <<Group(<<[name |-> "write_file", description |-> "d",
                            parameters |-> FullParams]>>)>>]}

Translate ==
    /\ trPc = "ready"
    /\ openAIRequest' = convertToOpenAIFormat(trRequest, DEFAULT_QWEN_MODEL)
    /\ trPc' = "translated"
    /\ UNCHANGED trRequest

(***************************************************************************)
(* JSON.parse. A parsed value is a record: kind "object" | "array" |       *)
(* "string" | "number" | "boolean" | "null"; text holds a string's         *)
(* characters, or the lexeme of a number or literal as it was written;     *)
(* members maps each key of an object to its value, or holds the elements  *)
(* of an array in order.                                                   *)
(***************************************************************************)
JVal(kind, text, members) == [kind |-> kind, text |-> text, members |-> members]

\* {}
EmptyObject == JVal("object", <<>>, <<>>)

ParseFail == [ok |-> FALSE, pos |-> 0, val |-> EmptyObject]
ParseOk(pos, val) == [ok |-> TRUE, pos |-> pos, val |-> val]

\* obj[key] = val (a repeated key keeps the last value)
SetMember(members, key, val) ==
    [k \in (DOMAIN members) \cup {key} |-> IF k = key THEN val ELSE members[k]]

\* The white space of the JSON grammar.
JsonWhiteSpace == {" ", "\t", "\n", "\r"}

\* U+0000 .. U+001F, which a JSON string must not hold unescaped.
ControlChars ==
    {"U+0000", "U+0001", "U+0002", "U+0003", "U+0004", "U+0005", "U+0006",
     "U+0007", "U+0008", "\t", "\n", "U+000B", "\f", "\r", "U+000E", "U+000F",
     "U+0010", "U+0011", "U+0012", "U+0013", "U+0014", "U+0015", "U+0016",
     "U+0017", "U+0018", "U+0019", "U+001A", "U+001B", "U+001C", "U+001D",
     "U+001E", "U+001F"}

Digits == {"0", "1", "2", "3", "4", "5", "6", "7", "8", "9"}

UpperHex ==
    <<"0", "1", "2", "3", "4", "5", "6", "7", "8", "9", "A", "B", "C", "D", "E", "F">>
LowerHex ==
    <<"0", "1", "2", "3", "4", "5", "6", "7", "8", "9", "a", "b", "c", "d", "e", "f">>
HexDigits == {UpperHex[n] : n \in 1..16} \cup {LowerHex[n] : n \in 1..16}
HexVal(c) == (CHOOSE n \in 1..16 : c = UpperHex[n] \/ c = LowerHex[n]) - 1

\* The characters U+0020 .. U+007E (the grave accent by its code point).
Ascii ==
    <<" ", "!", "\"", "#", "$", "%", "&", "'", "(", ")", "*", "+", ",", "-", ".", "/",
      "0", "1", "2", "3", "4", "5", "6", "7", "8", "9", ":", ";", "<", "=", ">", "?",
      "@", "A", "B", "C", "D", "E", "F", "G", "H", "I", "J", "K", "L", "M", "N", "O",
      "P", "Q", "R", "S", "T", "U", "V", "W", "X", "Y", "Z", "[", "\\", "]", "^", "_",
      "U+0060", "a", "b", "c", "d", "e", "f", "g", "h", "i", "j", "k", "l", "m", "n", "o",
      "p", "q", "r", "s", "t", "u", "v", "w", "x", "y", "z", "{", "|", "}", "~">>

\* The character of the code unit `code`, whose hex digits are h1..h4.
CharOfUnit(code, h1, h2, h3, h4) ==
    CASE code >= 32 /\ code <= 126 -> Ascii[code - 31]
      [] code = 9 -> "\t"
      [] code = 10 -> "\n"
      [] code = 12 -> "\f"
      [] code = 13 -> "\r"
      [] OTHER -> "U+" \o UpperHex[h1 + 1] \o UpperHex[h2 + 1]
                       \o UpperHex[h3 + 1] \o UpperHex[h4 + 1]

HexUnit(h1, h2, h3, h4) ==
    CharOfUnit(((h1 * 16 + h2) * 16 + h3) * 16 + h4, h1, h2, h3, h4)

\* The character of the escape \uh1h2h3h4.
CharOfCode(h1, h2, h3, h4) ==
    HexUnit(HexVal(h1), HexVal(h2), HexVal(h3), HexVal(h4))

\* s[k], or "end" past the end of s
CharAt(s, k) == IF k <= Len(s) THEN s[k] ELSE "end"

RECURSIVE SkipWs(_, _)
SkipWs(s, i) ==
    IF i <= Len(s) /\ s[i] \in JsonWhiteSpace THEN SkipWs(s, i + 1) ELSE i

\* The characters of a string after its opening quote, from position i.
RECURSIVE ParseChars(_, _, _)
ParseChars(s, i, acc) ==
    IF i > Len(s) THEN ParseFail
    ELSE IF s[i] = "\"" THEN ParseOk(i + 1, JVal("string", acc, <<>>))
    ELSE IF s[i] = "\\"
    THEN IF i + 1 > Len(s) THEN ParseFail
         ELSE CASE s[i + 1] \in {"\"", "\\", "/"} ->
                       ParseChars(s, i + 2, Append(acc, s[i + 1]))
                [] s[i + 1] = "b" -> ParseChars(s, i + 2, Append(acc, "U+0008"))
                [] s[i + 1] = "f" -> ParseChars(s, i + 2, Append(acc, "\f"))
                [] s[i + 1] = "n" -> ParseChars(s, i + 2, Append(acc, "\n"))
                [] s[i + 1] = "r" -> ParseChars(s, i + 2, Append(acc, "\r"))
                [] s[i + 1] = "t" -> ParseChars(s, i + 2, Append(acc, "\t"))
                [] s[i + 1] = "u" ->
                       IF /\ i + 5 <= Len(s)
                          /\ \A k \in (i + 2)..(i + 5) : s[k] \in HexDigits
                       THEN ParseChars(s, i + 6,
                                       Append(acc, CharOfCode(s[i + 2], s[i + 3],
                                                              s[i + 4], s[i + 5])))
                       ELSE ParseFail
                [] OTHER -> ParseFail
    ELSE IF s[i] \in ControlChars THEN ParseFail
    ELSE ParseChars(s, i + 1, Append(acc, s[i]))

\* The position after the digits that start at position i.
RECURSIVE ParseDigits(_, _)
ParseDigits(s, i) ==
    IF i <= Len(s) /\ s[i] \in Digits THEN ParseDigits(s, i + 1) ELSE i

\* A number: -? (0 | [1-9][0-9]*) (. [0-9]+)? ([eE] [+-]? [0-9]+)?
\* The number that starts at i and ends before position end; its value is kept
\* as it was written.
NumberOk(s, i, end) == ParseOk(end, JVal("number", SubSeq(s, i, end - 1), <<>>))

\* The digits of the exponent run from exp to before expEnd.
AfterExp(s, i, exp, expEnd) ==
    IF expEnd = exp THEN ParseFail ELSE NumberOk(s, i, expEnd)

\* An exponent may start at k.
ExpAt(s, i, k) ==
    IF CharAt(s, k) \in {"e", "E"}
    THEN IF CharAt(s, k + 1) \in {"+", "-"}
         THEN AfterExp(s, i, k + 2, ParseDigits(s, k + 2))
         ELSE AfterExp(s, i, k + 1, ParseDigits(s, k + 1))
    ELSE NumberOk(s, i, k)

\* The digits of the fraction run from frac to before fracEnd.
AfterFrac(s, i, frac, fracEnd) ==
    IF fracEnd = frac THEN ParseFail ELSE ExpAt(s, i, fracEnd)

\* The integer part runs from int to before intEnd.
AfterInt(s, i, int, intEnd) ==
    IF intEnd = int THEN ParseFail
    ELSE IF CharAt(s, intEnd) = "."
    THEN AfterFrac(s, i, intEnd + 1, ParseDigits(s, intEnd + 1))
    ELSE ExpAt(s, i, intEnd)

\* The integer part starts at int: a single 0, or digits.
IntAt(s, i, int) ==
    IF CharAt(s, int) = "0" THEN AfterInt(s, i, int, int + 1)
    ELSE AfterInt(s, i, int, ParseDigits(s, int))

\* A number from position i.
ParseNumber(s, i) == IF CharAt(s, i) = "-" THEN IntAt(s, i, i + 1) ELSE IntAt(s, i, i)

\* The literal `word` (true, false, null) at position i.
ParseLiteral(s, i, word, kind) ==
    IF i + Len(word) - 1 <= Len(s) /\ SubSeq(s, i, i + Len(word) - 1) = word
    THEN ParseOk(i + Len(word), JVal(kind, word, <<>>))
    ELSE ParseFail

RECURSIVE ParseValue(_, _)
RECURSIVE ParseMembers(_, _, _)
RECURSIVE ParseElements(_, _, _)

\* After a member's value, at position e: the object ends or a member follows.
MemberEnd(s, e, members) ==
    IF e > Len(s) THEN ParseFail
    ELSE IF s[e] = "}" THEN ParseOk(e + 1, JVal("object", <<>>, members))
    ELSE IF s[e] = "," THEN ParseMembers(s, SkipWs(s, e + 1), members)
    ELSE ParseFail

\* The member `key` has the parsed value v.
AfterMember(s, members, key, v) ==
    IF ~v.ok THEN ParseFail
    ELSE MemberEnd(s, SkipWs(s, v.pos), SetMember(members, key, v.val))

\* After a member's key, at position c: a colon and the value.
ColonAt(s, c, members, key) ==
    IF c > Len(s) \/ s[c] # ":" THEN ParseFail
    ELSE AfterMember(s, members, key, ParseValue(s, c + 1))

\* The key of a member has been parsed.
AfterKey(s, members, key) ==
    IF ~key.ok THEN ParseFail
    ELSE ColonAt(s, SkipWs(s, key.pos), members, key.val.text)

\* The members of an object from position i (a key is expected there).
ParseMembers(s, i, members) ==
    IF i > Len(s) \/ s[i] # "\"" THEN ParseFail
    ELSE AfterKey(s, members, ParseChars(s, i + 1, <<>>))

\* After an element, at position e: the array ends or an element follows.
ElementEnd(s, e, items) ==
    IF e > Len(s) THEN ParseFail
    ELSE IF s[e] = "]" THEN ParseOk(e + 1, JVal("array", <<>>, items))
    ELSE IF s[e] = "," THEN ParseElements(s, e + 1, items)
    ELSE ParseFail

\* An element has the parsed value v.
AfterElement(s, items, v) ==
    IF ~v.ok THEN ParseFail
    ELSE ElementEnd(s, SkipWs(s, v.pos), Append(items, v.val))

\* The elements of an array from position i (a value is expected there).
ParseElements(s, i, items) == AfterElement(s, items, ParseValue(s, i))

\* After the opening brace, at position k.
ObjectAt(s, k) ==
    IF k <= Len(s) /\ s[k] = "}" THEN ParseOk(k + 1, EmptyObject)
    ELSE ParseMembers(s, k, <<>>)

\* After the opening bracket, at position k.
ArrayAt(s, k) ==
    IF k <= Len(s) /\ s[k] = "]" THEN ParseOk(k + 1, JVal("array", <<>>, <<>>))
    ELSE ParseElements(s, k, <<>>)

\* One JSON value at position j.
ValueAt(s, j) ==
    IF j > Len(s) THEN ParseFail
    ELSE CASE s[j] = "{" -> ObjectAt(s, SkipWs(s, j + 1))
           [] s[j] = "[" -> ArrayAt(s, SkipWs(s, j + 1))
           [] s[j] = "\"" -> ParseChars(s, j + 1, <<>>)
           [] s[j] \in Digits \cup {"-"} -> ParseNumber(s, j)
           [] s[j] = "t" -> ParseLiteral(s, j, <<"t", "r", "u", "e">>, "boolean")
           [] s[j] = "f" -> ParseLiteral(s, j, <<"f", "a", "l", "s", "e">>, "boolean")
           [] s[j] = "n" -> ParseLiteral(s, j, <<"n", "u", "l", "l">>, "null")
           [] OTHER -> ParseFail

\* One JSON value from position i, after leading white space.
ParseValue(s, i) == ValueAt(s, SkipWs(s, i))

\* The value v is all of s but for trailing white space.
WholeText(s, v) == IF v.ok /\ SkipWs(s, v.pos) = Len(s) + 1 THEN v ELSE ParseFail

\* JSON.parse(s): ok is FALSE where it throws a SyntaxError.
JSONParse(s) == WholeText(s, ParseValue(s, 1))

\* s.replace(/\\c/g, '\\\\c'): every backslash followed by c gets one more
\* backslash in front of it.
RECURSIVE EscapeBackslash(_, _)
EscapeBackslash(s, c) ==
    IF s = <<>> THEN <<>>
    ELSE IF Len(s) >= 2 /\ s[1] = "\\" /\ s[2] = c
    THEN <<"\\", "\\", c>> \o EscapeBackslash(SubSeq(s, 3, Len(s)), c)
    ELSE <<Head(s)>> \o EscapeBackslash(Tail(s), c)

\* Lines 245-250: the repair pass.
FixEscaping(arguments) ==
    EscapeBackslash(EscapeBackslash(EscapeBackslash(arguments, "n"), "t"), "r")

(***************************************************************************)
(* Response reconciler: LocalContentGenerator.convertFromOpenAIFormat      *)
(***************************************************************************)
M_ParseArguments_RawFallback(arguments) ==
    IF arguments = <<>> THEN [thrown |-> FALSE, args |-> EmptyObject]
    ELSE LET first == JSONParse(arguments)
         IN  IF first.ok THEN [thrown |-> FALSE, args |-> first.val]
             ELSE [thrown |-> FALSE, args |-> JVal("string", arguments, <<>>)]

\* Lines 235-261: the arguments of one tool call. thrown says whether an
\* exception leaves the block (it never does).
ParseArguments(arguments) ==
    IF arguments = <<>> THEN [thrown |-> FALSE, args |-> EmptyObject]
    ELSE LET first == JSONParse(arguments)
         IN  IF first.ok THEN [thrown |-> FALSE, args |-> first.val]
             ELSE LET second == JSONParse(FixEscaping(arguments))
                  IN  IF second.ok THEN [thrown |-> FALSE, args |-> second.val]
                      ELSE [thrown |-> FALSE, args |-> EmptyObject]

TextPart(content) ==
    [kind |-> "text", text |-> content, name |-> UNDEF, args |-> EmptyObject]
FunctionCallPart(name, args) ==
    [kind |-> "functionCall", text |-> <<>>, name |-> name, args |-> args]

\* Lines 230-280: one part per tool call; the catch of line 270 replaces a
\* call whose processing threw by one with empty args.
ToolCallPart(tc) ==
    LET parsed == ParseArguments(tc.arguments)
    IN  IF parsed.thrown
        THEN FunctionCallPart(IF tc.name = UNDEF THEN "unknown" ELSE tc.name,
                              EmptyObject)
        ELSE FunctionCallPart(tc.name, parsed.args)

\* x || 0 on a counter
OrZero(present, n) == IF present THEN n ELSE 0

convertFromOpenAIFormat(data) ==
    LET content == IF data.hasChoice THEN data.content ELSE <<>>
        toolCalls == IF data.hasChoice THEN data.tool_calls ELSE <<>>
        parts == (IF Trim(content) # <<>> THEN <<TextPart(content)>> ELSE <<>>)
                 \o MapSeq(toolCalls, ToolCallPart)
    IN  [parts |-> parts,
         role |-> "model",
         finishReason |-> IF data.hasChoice
                          THEN OrElse(data.finish_reason, "STOP") ELSE "STOP",
         tokenCount |-> OrZero(data.hasUsage, data.completion_tokens),
         promptTokenCount |-> OrZero(data.hasUsage, data.prompt_tokens),
         candidatesTokenCount |-> OrZero(data.hasUsage, data.completion_tokens),
         totalTokenCount |-> OrZero(data.hasUsage, data.total_tokens),
         text |-> content]

NoResponse ==
    [parts |-> <<>>, role |-> UNDEF, finishReason |-> UNDEF, tokenCount |-> 0,
     promptTokenCount |-> 0, candidatesTokenCount |-> 0, totalTokenCount |-> 0,
     text |-> <<>>]

\* ---- the wire responses the reconciler is run on ----
MaxArgLen == 5

\* Every argument string of at most MaxArgLen of these characters ...
ArgChars == {"{", "}", "\"", "\\", "n", "1"}
ArgStrings == UNION {[1..n -> ArgChars] : n \in 0..MaxArgLen}

\* ... and some longer payloads.
SampleArgs ==
    {<<"{", "\"", "a", "\"", ":", "1", "}">>,
     <<" ", "{", "\"", "a", "\"", " ", ":", "\"", "1", "\"", "}", "\n">>,
     <<"{", "\"", "a", "\"", ":", "\"", "\\", "n", "\"", "}">>,
     <<"{", "\"", "a", "\"", ":", "\"", "\n", "\"", "}">>,
     <<"{", "\"", "a", "\"", ":", "\"", "\\", "a", "\\", "n", "\"", "}">>,
     <<"{", "\"", "a", "\"", ":", "\"", "\\", "t", "\"", ",", "\"", "a", "\"", ":",
       "{", "}", "}">>,
     <<"{", "\"", "a", "\"", ":", "1", ",", "}">>,
     <<"{", "a", ":", "1", "}">>,
     <<"2">>,
     <<"-", "1", ".", "5", "e", "+", "2">>,
     <<"0", "1">>,
     <<"1", ".">>,
     <<"-">>,
     <<"t", "r", "u", "e">>,
     <<"f", "a", "l", "s", "e">>,
     <<"n", "u", "l", "l">>,
     <<"n", "u", "l">>,
     <<"[", "]">>,
     <<"[", "1", ",", " ", "t", "r", "u", "e", "]">>,
     <<"[", "1", ",", "]">>,
     <<"{", "\"", "a", "\"", ":", "[", "9", ",", "{", "\"", "b", "\"", ":",
       "n", "u", "l", "l", "}", "]", "}">>,
     <<"{", "\"", "a", "\"", ":", "-", "0", ".", "7", "E", "3", "}">>,
     <<"\"", "\\", "u", "0", "0", "4", "1", "\"">>,
     <<"{", "\"", "a", "\"", ":", "\"", "\\", "u", "0", "0", "e", "9", "\"", "}">>,
     <<"{", "\"", "a", "\"", ":", "\"", "\\", "u", "0", "0", "g", "9", "\"", "}">>,
     <<"{", "\"", "a", "\"", ":", "\"", "\\", "b", "\\", "f", "\\", "/", "\"", "}">>,
     <<"{", "\"", "a", "\"", ":", "\"", "\f", "\"", "}">>,
     <<"{", "\"", "a", "\"", ":", "\"", "U+0001", "\"", "}">>,
     <<"\f", "{", "}">>,
     <<"U+00A0", "{", "}">>}

ToolCall(name, arguments) == [name |-> name, arguments |-> arguments]

WireResponse(hasChoice, content, toolCalls, finish, hasUsage) ==
    [hasChoice |-> hasChoice, content |-> content, tool_calls |-> toolCalls,
     finish_reason |-> finish, hasUsage |-> hasUsage,
     prompt_tokens |-> IF hasUsage THEN 1 ELSE 0,
     completion_tokens |-> IF hasUsage THEN 1 ELSE 0,
     total_tokens |-> IF hasUsage THEN 2 ELSE 0]

FewToolCalls ==
    {<<>>,
     <<ToolCall("write_file", <<"{", "}">>)>>,
     <<ToolCall(UNDEF, <<"{", "n">>)>>,
     <<ToolCall("read_file", <<>>), ToolCall("glob", <<"\"", "\\", "n">>)>>}

\* Every argument string with one response shape, and every response shape with
\* a few tool-call lists.
ReconcilerResponses ==
    {WireResponse(TRUE, <<>>, <<ToolCall(n, a)>>, "tool_calls", TRUE) :
        n \in {"write_file", "run_shell_command"}, a \in ArgStrings \cup SampleArgs}
    \cup {WireResponse(h, c, t, f, u) :
            h \in BOOLEAN, c \in {<<>>, <<" ", "\n">>, <<"\f", "U+FEFF">>, <<"h", "e", "l", "l", "o">>},
            t \in FewToolCalls,
            f \in {UNDEF, "", "stop", "tool_calls", "length", "content_filter"},
            u \in BOOLEAN}

Reconcile ==
    /\ rcPc = "ready"
    /\ rcResponse' = convertFromOpenAIFormat(rcData)
    /\ rcPc' = "reconciled"
    /\ UNCHANGED rcData

(***************************************************************************)
(* Local backend adapter: one call of LocalContentGenerator.generateContent*)
(* or generateContentStream. Time is counted in ticks of TickMs; what the   *)
(* server does with a callRequest (when, and with what) is chosen when the      *)
(* callRequest is issued.                                                       *)
(***************************************************************************)
TickMs == ProbeTimeoutMs

BoolText(b) == IF b THEN "true" ELSE "false"
MaxTicks == 7

\* config.endpoint and config.timeout of the constructor
\* A timeout that is not a whole number of seconds
FractionalTimeoutMs == 7500

AdapterConfigs ==
    [endpoint : {"", CustomEndpoint}, timeout : {0, 2 * TickMs, FractionalTimeoutMs}]

\* GET /v1/models: a response with a status, or a network error, after `at` ticks.
ProbeScripts ==
    [kind : {"response", "network_error"}, status : {200, 204, 404, 503}, at : 0..2]

OkStatus(status) == status >= 200 /\ status <= 299

HelloData ==
    WireResponse(TRUE, <<"h", "e", "l", "l", "o">>, <<>>, "stop", TRUE)
ToolCallData ==
    WireResponse(TRUE, <<>>, <<ToolCall("write_file", <<"{", "\"", "\\", "n">>)>>,
                 "tool_calls", FALSE)

\* A response body: its raw text, and what response.json() makes of it.
Body(text, isJson, data) == [text |-> text, isJson |-> isJson, data |-> data]
Bodies ==
    {Body("hello-json", TRUE, HelloData), Body("tool-call-json", TRUE, ToolCallData),
     Body("model not loaded", FALSE, HelloData)}

\* POST /v1/chat/completions: the headers come after headersAt ticks and the
\* body is complete after bodyAt ticks, unless the connection fails first
\* (failure "fetch": instead of the headers; "body": instead of the body's end).
PostScripts ==
    {s \in [headersAt : 0..MaxTicks, bodyAt : 0..MaxTicks, status : {200, 500},
            body : Bodies, failure : {"none", "fetch", "body"}] :
        /\ s.headersAt <= s.bodyAt
        /\ s.failure = "fetch" =>
              s.bodyAt = s.headersAt /\ s.status = 200 /\ s.body.text = "hello-json"
        /\ s.failure = "body" => s.body.text = "hello-json"}

NoProbeScript == [kind |-> "none", status |-> 0, at |-> 0]
NoPostScript ==
    [headersAt |-> 0, bodyAt |-> 0, status |-> 0,
     body |-> Body(UNDEF, FALSE, HelloData), failure |-> "unsent"]

\* What a call ends with: a response, or a thrown error (name, and the parts
\* its message is made of).
NoResult ==
    [kind |-> "none", name |-> UNDEF, category |-> UNDEF, endpoint |-> UNDEF,
     status |-> 0, errorText |-> UNDEF, seconds |-> <<>>, response |-> NoResponse]

Returned(response) == [NoResult EXCEPT !.kind = "response", !.response = response]

Thrown(name, category) ==
    [NoResult EXCEPT !.kind = "error", !.name = name, !.category = category]

\* Line 57: 'Cannot connect to LM Studio. ... running on ' + this.endpoint
ConnectivityError(self) ==
    [Thrown("Error", "connectivity") EXCEPT !.endpoint = self.endpoint]

M_ApiError_NoBody(status, errorText) ==
    [Thrown("Error", "http") EXCEPT !.status = status]

\* Line 82: `Local API error: ${status} ${statusText} - ${errorText}`
ApiError(status, errorText) ==
    [Thrown("Error", "http") EXCEPT !.status = status, !.errorText = errorText]

\* What fetch, response.text() and response.json() reject with.
AbortTimeout == Thrown("TimeoutError", "abort")
FetchFailed == Thrown("TypeError", "network")
BadJson == Thrown("SyntaxError", "syntax")

\* String(n) of a natural number n
DecimalDigit == <<"0", "1", "2", "3", "4", "5", "6", "7", "8", "9">>

RECURSIVE DecimalDigits(_)
DecimalDigits(n) ==
    IF n < 10 THEN <<DecimalDigit[n + 1]>>
    ELSE Append(DecimalDigits(n \div 10), DecimalDigit[(n % 10) + 1])

\* The digits of a fraction without its trailing zeros
RECURSIVE StripZeros(_)
StripZeros(digits) ==
    IF digits # <<>> /\ digits[Len(digits)] = "0"
    THEN StripZeros(SubSeq(digits, 1, Len(digits) - 1))
    ELSE digits

\* The three digits of a number of thousandths
Thousandths(n) ==
    <<DecimalDigit[(n \div 100) + 1], DecimalDigit[((n \div 10) % 10) + 1],
      DecimalDigit[(n % 10) + 1]>>

\* `${ms / 1000}` for a whole number of milliseconds: the quotient as it is
\* printed, 30000 as 30, 1500 as 1.5, 1 as 0.001.
SecondsText(ms) ==
    DecimalDigits(ms \div 1000)
    \o (IF ms % 1000 = 0 THEN <<>>
        ELSE <<".">> \o StripZeros(Thousandths(ms % 1000)))

M_Catch_Rethrow(self, error) == error

\* Lines 88-96: the catch block. A TimeoutError becomes the timeout error that
\* names this.timeout / 1000 seconds; anything else is rethrown as it is.
Catch(self, error) ==
    IF error.name = "TimeoutError"
    THEN [Thrown("Error", "timeout") EXCEPT !.seconds = SecondsText(self.timeout)]
    ELSE error

AdapterRequests ==
    {Request(HiContents, [hasTools |-> FALSE, tools |-> <<>>]),
     Request(HiContents, ToolsOf(<<[name |-> "write_file", description |-> "d",
                                    parameters |-> FullParams]>>, 0))}

\* A caller invokes generateContent or generateContentStream; checkConnection
\* issues its GET at once (lines 55, 40).
Call ==
    /\ pc = "idle"
    /\ op' \in {"generateContent", "generateContentStream"}
    /\ callRequest' \in AdapterRequests
    /\ probeScript' \in ProbeScripts
    /\ gets' = 1
    /\ posts' = 0
    /\ clock' = 0
    /\ probeAnswer' = "pending"
    /\ postScript' = NoPostScript
    /\ responseStatus' = 0
    /\ sentBody' = NoWireRequest
    /\ result' = NoResult
    /\ chunks' = <<>>
    /\ pc' = "probing"
    /\ UNCHANGED gen

\* One tick passes while a callRequest is in flight and nothing is due.
Tick ==
    /\ \/ /\ pc = "probing"
          /\ clock < probeScript.at
          /\ clock * TickMs < ProbeTimeoutMs
       \/ /\ pc = "posting"
          /\ clock < postScript.headersAt
          /\ clock * TickMs < gen.timeout
       \/ /\ pc = "reading"
          /\ clock < postScript.bodyAt
          /\ clock * TickMs < gen.timeout
    /\ clock' = clock + 1
    /\ UNCHANGED <<gen, pc, op, callRequest, sentBody, gets, posts, probeScript,
                   probeAnswer, postScript, responseStatus, result, chunks>>

M_AfterProbe_PostAnyway(connected) ==
    /\ probeAnswer' = BoolText(connected)
    /\ sentBody' = convertToOpenAIFormat(callRequest, gen.model)
    /\ posts' = posts + 1
    /\ postScript' \in PostScripts
    /\ clock' = 0
    /\ pc' = "posting"
    /\ UNCHANGED <<gen, op, callRequest, gets, probeScript, responseStatus, result,
                   chunks>>

M_AfterProbe_Retry(connected) ==
    IF ~connected /\ gets < 2
    THEN /\ probeAnswer' = "pending"
         /\ gets' = gets + 1
         /\ clock' = 0
         /\ UNCHANGED <<gen, pc, op, callRequest, sentBody, posts, probeScript,
                        postScript, responseStatus, result, chunks>>
    ELSE M_AfterProbe_PostAnyway(connected)

\* Lines 55-77: checkConnection has answered. false: the connectivity error is
\* thrown; true: the callRequest is translated and POSTed with AbortSignal.timeout.
AfterProbe(connected) ==
    /\ probeAnswer' = BoolText(connected)
    /\ IF ~connected
       THEN /\ result' = ConnectivityError(gen)
            /\ pc' = "thrown"
            /\ UNCHANGED <<sentBody, posts, postScript, clock>>
       ELSE /\ sentBody' = convertToOpenAIFormat(callRequest, gen.model)
            /\ posts' = posts + 1
            /\ postScript' \in PostScripts
            /\ clock' = 0
            /\ pc' = "posting"
            /\ UNCHANGED result
    /\ UNCHANGED <<gen, op, callRequest, gets, probeScript, responseStatus, chunks>>

\* Lines 40-43: the GET is answered; checkConnection returns response.ok.
ProbeResponds ==
    /\ pc = "probing"
    /\ probeScript.kind = "response"
    /\ clock = probeScript.at
    /\ clock * TickMs <= ProbeTimeoutMs
    /\ AfterProbe(OkStatus(probeScript.status))

\* Lines 44-46: fetch rejects (network error); checkConnection returns false.
ProbeFails ==
    /\ pc = "probing"
    /\ probeScript.kind = "network_error"
    /\ clock = probeScript.at
    /\ clock * TickMs <= ProbeTimeoutMs
    /\ AfterProbe(FALSE)

M_ProbeTimesOut_Raises ==
    /\ pc = "probing"
    /\ clock * TickMs >= ProbeTimeoutMs
    /\ probeAnswer' = "raised"
    /\ result' = AbortTimeout
    /\ pc' = "thrown"
    /\ UNCHANGED <<gen, op, callRequest, sentBody, gets, posts, clock, probeScript,
                   postScript, responseStatus, chunks>>

\* Lines 41, 44-46: AbortSignal.timeout(5000) fires; checkConnection returns false.
ProbeTimesOut ==
    /\ pc = "probing"
    /\ clock * TickMs >= ProbeTimeoutMs
    /\ AfterProbe(FALSE)

\* The call ends by throwing what the catch block makes of `error`.
Throw(error) ==
    /\ result' = Catch(gen, error)
    /\ pc' = "thrown"
    /\ UNCHANGED <<gen, op, callRequest, sentBody, gets, posts, clock, probeScript,
                   probeAnswer, postScript, responseStatus, chunks>>

\* Line 68: fetch resolves with the response headers; line 80 or 85 starts
\* reading the body.
HeadersArrive ==
    /\ pc = "posting"
    /\ postScript.failure # "fetch"
    /\ clock = postScript.headersAt
    /\ clock * TickMs <= gen.timeout
    /\ responseStatus' = postScript.status
    /\ pc' = "reading"
    /\ UNCHANGED <<gen, op, callRequest, sentBody, gets, posts, clock, probeScript,
                   probeAnswer, postScript, result, chunks>>

\* Line 68: fetch rejects with a network error.
FetchRejects ==
    /\ pc = "posting"
    /\ postScript.failure = "fetch"
    /\ clock = postScript.headersAt
    /\ clock * TickMs <= gen.timeout
    /\ Throw(FetchFailed)

M_TimerFires_NoSignal ==
    /\ pc \in {"posting", "reading"}
    /\ clock * TickMs >= gen.timeout
    /\ FALSE
    /\ UNCHANGED adVars

\* Line 76: AbortSignal.timeout(this.timeout) fires while fetch or the body
\* read is pending; the pending await rejects with a TimeoutError.
TimerFires ==
    /\ pc \in {"posting", "reading"}
    /\ clock * TickMs >= gen.timeout
    /\ Throw(AbortTimeout)

\* Lines 80, 85: the body read rejects with a network error.
BodyRejects ==
    /\ pc = "reading"
    /\ postScript.failure = "body"
    /\ clock = postScript.bodyAt
    /\ clock * TickMs <= gen.timeout
    /\ Throw(FetchFailed)

\* Lines 79-87 (and 104-110 for the stream): the body is complete.
BodyArrives ==
    /\ pc = "reading"
    /\ postScript.failure = "none"
    /\ clock = postScript.bodyAt
    /\ clock * TickMs <= gen.timeout
    /\ IF ~OkStatus(postScript.status)
       THEN Throw(ApiError(postScript.status, postScript.body.text))
       ELSE IF ~postScript.body.isJson
       THEN Throw(BadJson)
       ELSE /\ result' = Returned(convertFromOpenAIFormat(postScript.body.data))
            /\ pc' = IF op = "generateContentStream" THEN "generator" ELSE "returned"
            /\ UNCHANGED <<gen, op, callRequest, sentBody, gets, posts, clock,
                           probeScript, probeAnswer, postScript, responseStatus, chunks>>

M_StreamYield_Nothing ==
    /\ pc = "generator"
    /\ pc' = "yielded"
    /\ UNCHANGED <<gen, op, callRequest, sentBody, gets, posts, clock, probeScript,
                   probeAnswer, postScript, responseStatus, result, chunks>>

\* Lines 106-108: the consumer's first next() runs simpleGenerator to its yield.
StreamYield ==
    /\ pc = "generator"
    /\ chunks' = Append(chunks, result.response)
    /\ pc' = "yielded"
    /\ UNCHANGED <<gen, op, callRequest, sentBody, gets, posts, clock, probeScript,
                   probeAnswer, postScript, responseStatus, result>>

\* Line 108: the next next() runs off the end of simpleGenerator: done.
StreamComplete ==
    /\ pc = "yielded"
    /\ pc' = "streamed"
    /\ UNCHANGED <<gen, op, callRequest, sentBody, gets, posts, clock, probeScript,
                   probeAnswer, postScript, responseStatus, result, chunks>>

\* The caller has the call's outcome; the adapter keeps nothing of the call.
Settle ==
    /\ pc \in {"returned", "thrown", "streamed"}
    /\ pc' = "idle"
    /\ op' = UNDEF
    /\ callRequest' = Request(HiContents, [hasTools |-> FALSE, tools |-> <<>>])
    /\ sentBody' = NoWireRequest
    /\ gets' = 0
    /\ posts' = 0
    /\ clock' = 0
    /\ probeScript' = NoProbeScript
    /\ probeAnswer' = "pending"
    /\ postScript' = NoPostScript
    /\ responseStatus' = 0
    /\ result' = NoResult
    /\ chunks' = <<>>
    /\ UNCHANGED gen

(***************************************************************************)
(* Overlapping calls: several callers invoke generateContent on the same    *)
(* instance without awaiting each other. Every invocation has its own       *)
(* locals (isConnected, openAIRequest, response, data) and its own          *)
(* AbortSignal timers; `this` is the one thing they share.                  *)
(***************************************************************************)
Callers == {"a", "b"}

OvProbeScripts ==
    {[kind |-> "response", status |-> 200, at |-> 0],
     [kind |-> "response", status |-> 200, at |-> 2],
     [kind |-> "response", status |-> 503, at |-> 0],
     [kind |-> "network_error", status |-> 200, at |-> 1]}

OvPostScripts ==
    {s \in PostScripts :
        /\ s.headersAt \in {0, MaxTicks - 1}
        /\ s.bodyAt \in {s.headersAt, 1, MaxTicks}
        /\ s.status = 500 => s.body.text = "model not loaded"
        /\ s.status = 200 => s.body.text # "model not loaded"}

IdleCall ==
    [pc |-> "idle",
     request |-> Request(HiContents, [hasTools |-> FALSE, tools |-> <<>>]),
     sentBody |-> NoWireRequest, gets |-> 0, posts |-> 0, clock |-> 0,
     probeScript |-> NoProbeScript, probeAnswer |-> "pending",
     postScript |-> NoPostScript, result |-> NoResult]

\* Lines 49-55, 40: caller i invokes generateContent; the GET is issued.
OvCall(i) ==
    /\ calls[i].pc = "idle"
    /\ \E r \in AdapterRequests, ps \in OvProbeScripts :
          calls' = [calls EXCEPT ![i] =
                       [IdleCall EXCEPT !.pc = "probing", !.request = r,
                                        !.probeScript = ps, !.gets = 1]]
    /\ UNCHANGED <<gen, constructed>>

\* One tick of caller i's pending timer.
OvTick(i) ==
    LET c == calls[i]
    IN  /\ \/ /\ c.pc = "probing"
              /\ c.clock < c.probeScript.at
              /\ c.clock * TickMs < ProbeTimeoutMs
           \/ /\ c.pc = "posting"
              /\ c.clock < c.postScript.headersAt
              /\ c.clock * TickMs < gen.timeout
           \/ /\ c.pc = "reading"
              /\ c.clock < c.postScript.bodyAt
              /\ c.clock * TickMs < gen.timeout
        /\ calls' = [calls EXCEPT ![i].clock = c.clock + 1]
        /\ UNCHANGED <<gen, constructed>>

M_OvAfterProbe_SharedRequest(i, connected) ==
    LET c == calls[i]
        latest == CHOOSE j \in Callers :
                      j # i \/ \A k \in Callers \ {i} : calls[k].pc = "idle"
        shared == IF calls[latest].pc = "idle" THEN c.request
                  ELSE calls[latest].request
    IN  /\ IF ~connected
           THEN calls' = [calls EXCEPT ![i] =
                             [c EXCEPT !.probeAnswer = "false",
                                       !.result = ConnectivityError(gen),
                                       !.pc = "thrown"]]
           ELSE \E post \in OvPostScripts :
                   calls' = [calls EXCEPT ![i] =
                                [c EXCEPT !.probeAnswer = "true",
                                          !.sentBody =
                                              convertToOpenAIFormat(shared, gen.model),
                                          !.posts = c.posts + 1,
                                          !.postScript = post,
                                          !.clock = 0,
                                          !.pc = "posting"]]
        /\ UNCHANGED <<gen, constructed>>

\* Lines 55-77 for caller i: isConnected and openAIRequest are locals, the
\* endpoint, the model and the timeout are read from `this`.
OvAfterProbe(i, connected) ==
    LET c == calls[i]
    IN  /\ IF ~connected
           THEN calls' = [calls EXCEPT ![i] =
                             [c EXCEPT !.probeAnswer = "false",
                                       !.result = ConnectivityError(gen),
                                       !.pc = "thrown"]]
           ELSE \E post \in OvPostScripts :
                   calls' = [calls EXCEPT ![i] =
                                [c EXCEPT !.probeAnswer = "true",
                                          !.sentBody =
                                              convertToOpenAIFormat(c.request, gen.model),
                                          !.posts = c.posts + 1,
                                          !.postScript = post,
                                          !.clock = 0,
                                          !.pc = "posting"]]
        /\ UNCHANGED <<gen, constructed>>

OvProbeResponds(i) ==
    /\ calls[i].pc = "probing"
    /\ calls[i].probeScript.kind = "response"
    /\ calls[i].clock = calls[i].probeScript.at
    /\ calls[i].clock * TickMs <= ProbeTimeoutMs
    /\ OvAfterProbe(i, OkStatus(calls[i].probeScript.status))

OvProbeFails(i) ==
    /\ calls[i].pc = "probing"
    /\ calls[i].probeScript.kind = "network_error"
    /\ calls[i].clock = calls[i].probeScript.at
    /\ calls[i].clock * TickMs <= ProbeTimeoutMs
    /\ OvAfterProbe(i, FALSE)

OvProbeTimesOut(i) ==
    /\ calls[i].pc = "probing"
    /\ calls[i].clock * TickMs >= ProbeTimeoutMs
    /\ OvAfterProbe(i, FALSE)

\* Lines 88-96 for caller i.
OvThrow(i, error) ==
    /\ calls' = [calls EXCEPT ![i].result = Catch(gen, error), ![i].pc = "thrown"]
    /\ UNCHANGED <<gen, constructed>>

OvHeadersArrive(i) ==
    /\ calls[i].pc = "posting"
    /\ calls[i].postScript.failure # "fetch"
    /\ calls[i].clock = calls[i].postScript.headersAt
    /\ calls[i].clock * TickMs <= gen.timeout
    /\ calls' = [calls EXCEPT ![i].pc = "reading"]
    /\ UNCHANGED <<gen, constructed>>

OvFetchRejects(i) ==
    /\ calls[i].pc = "posting"
    /\ calls[i].postScript.failure = "fetch"
    /\ calls[i].clock = calls[i].postScript.headersAt
    /\ calls[i].clock * TickMs <= gen.timeout
    /\ OvThrow(i, FetchFailed)

OvTimerFires(i) ==
    /\ calls[i].pc \in {"posting", "reading"}
    /\ calls[i].clock * TickMs >= gen.timeout
    /\ OvThrow(i, AbortTimeout)

OvBodyRejects(i) ==
    /\ calls[i].pc = "reading"
    /\ calls[i].postScript.failure = "body"
    /\ calls[i].clock = calls[i].postScript.bodyAt
    /\ calls[i].clock * TickMs <= gen.timeout
    /\ OvThrow(i, FetchFailed)

\* Lines 79-87 for caller i: response and data are locals.
OvBodyArrives(i) ==
    LET c == calls[i]
    IN  /\ c.pc = "reading"
        /\ c.postScript.failure = "none"
        /\ c.clock = c.postScript.bodyAt
        /\ c.clock * TickMs <= gen.timeout
        /\ IF ~OkStatus(c.postScript.status)
           THEN OvThrow(i, ApiError(c.postScript.status, c.postScript.body.text))
           ELSE IF ~c.postScript.body.isJson
           THEN OvThrow(i, BadJson)
           ELSE /\ calls' = [calls EXCEPT
                                ![i].result =
                                    Returned(convertFromOpenAIFormat(c.postScript.body.data)),
                                ![i].pc = "returned"]
                /\ UNCHANGED <<gen, constructed>>

\* Caller i has its outcome; nothing of the call stays behind.
OvSettle(i) ==
    /\ calls[i].pc \in {"returned", "thrown"}
    /\ calls' = [calls EXCEPT ![i] = IdleCall]
    /\ UNCHANGED <<gen, constructed>>


\* ---- the specifications: each runs one component and holds the others' ----
\* ---- variables at rest                                                ----
Init ==
    /\ \E config \in AdapterConfigs :
          gen = LocalContentGenerator(config.endpoint, DEFAULT_QWEN_MODEL,
                                      config.timeout)
    /\ pc = "idle"
    /\ op = UNDEF
    /\ callRequest = Request(HiContents, [hasTools |-> FALSE, tools |-> <<>>])
    /\ sentBody = NoWireRequest
    /\ gets = 0
    /\ posts = 0
    /\ clock = 0
    /\ probeScript = NoProbeScript
    /\ probeAnswer = "pending"
    /\ postScript = NoPostScript
    /\ responseStatus = 0
    /\ result = NoResult
    /\ chunks = <<>>
    /\ calls = [i \in Callers |-> IdleCall]
    /\ constructed = gen
    /\ selPc = "start"
    /\ selInput = [model |-> UNDEF, authType |-> UNDEF, getModel |-> UNDEF,
                    GEMINI_API_KEY |-> UNDEF, GOOGLE_API_KEY |-> UNDEF,
                    GOOGLE_CLOUD_PROJECT |-> UNDEF, GOOGLE_CLOUD_LOCATION |-> UNDEF,
                    LOCAL_MODEL_ENDPOINT |-> UNDEF]
    /\ contentGeneratorConfig = NoConfig
    /\ selBackend = NoBackend
    /\ selWarned = FALSE
    /\ regQuery = UNDEF
    /\ regCaps = getModelCapabilities(UNDEF)
    /\ regLocal = FALSE
    /\ trPc = "ready"
    /\ trRequest = Request(HiContents, [hasTools |-> FALSE, tools |-> <<>>])
    /\ openAIRequest = NoWireRequest
    /\ rcPc = "ready"
    /\ rcData = WireResponse(FALSE, <<>>, <<>>, UNDEF, FALSE)
    /\ rcResponse = NoResponse

Next ==
    \/ Call /\ UNCHANGED <<selVars, trVars, rcVars, ovVars>>
    \/ Tick /\ UNCHANGED <<selVars, trVars, rcVars, ovVars>>
    \/ ProbeResponds /\ UNCHANGED <<selVars, trVars, rcVars, ovVars>>
    \/ ProbeFails /\ UNCHANGED <<selVars, trVars, rcVars, ovVars>>
    \/ ProbeTimesOut /\ UNCHANGED <<selVars, trVars, rcVars, ovVars>>
    \/ HeadersArrive /\ UNCHANGED <<selVars, trVars, rcVars, ovVars>>
    \/ FetchRejects /\ UNCHANGED <<selVars, trVars, rcVars, ovVars>>
    \/ TimerFires /\ UNCHANGED <<selVars, trVars, rcVars, ovVars>>
    \/ BodyRejects /\ UNCHANGED <<selVars, trVars, rcVars, ovVars>>
    \/ BodyArrives /\ UNCHANGED <<selVars, trVars, rcVars, ovVars>>
    \/ StreamYield /\ UNCHANGED <<selVars, trVars, rcVars, ovVars>>
    \/ StreamComplete /\ UNCHANGED <<selVars, trVars, rcVars, ovVars>>
    \/ Settle /\ UNCHANGED <<selVars, trVars, rcVars, ovVars>>

Spec == Init /\ [][Next]_vars

\* The answers of the server that the specification with fairness runs on:
\* every kind of answer, before, at and after the timers' expiry.
LiveProbeScripts ==
    {ps \in ProbeScripts :
        /\ ps.status \in {200, 503}
        /\ ps.kind = "network_error" => ps.status = 200 /\ ps.at = 1}

LivePostScripts ==
    {s \in PostScripts :
        /\ s.headersAt \in {0, 2, MaxTicks}
        /\ s.bodyAt \in {s.headersAt, 2, MaxTicks}
        /\ s.status = 500 => s.body.text = "model not loaded"
        /\ s.body.text # "tool-call-json"}

LiveInputs ==
    /\ probeScript' \in LiveProbeScripts \cup {NoProbeScript}
    /\ postScript' \in LivePostScripts \cup {NoPostScript}
    /\ UNCHANGED <<selVars, trVars, rcVars, ovVars>>

\* The steps of a call that the runtime takes by itself: timers run and fire,
\* and the answers of the server are delivered.
CallProgress ==
    \/ Tick /\ LiveInputs
    \/ ProbeResponds /\ LiveInputs
    \/ ProbeFails /\ LiveInputs
    \/ ProbeTimesOut /\ LiveInputs
    \/ HeadersArrive /\ LiveInputs
    \/ FetchRejects /\ LiveInputs
    \/ TimerFires /\ LiveInputs
    \/ BodyRejects /\ LiveInputs
    \/ BodyArrives /\ LiveInputs

LiveNext ==
    \/ Call /\ LiveInputs
    \/ Tick /\ LiveInputs
    \/ ProbeResponds /\ LiveInputs
    \/ ProbeFails /\ LiveInputs
    \/ ProbeTimesOut /\ LiveInputs
    \/ HeadersArrive /\ LiveInputs
    \/ FetchRejects /\ LiveInputs
    \/ TimerFires /\ LiveInputs
    \/ BodyRejects /\ LiveInputs
    \/ BodyArrives /\ LiveInputs
    \/ StreamYield /\ LiveInputs
    \/ StreamComplete /\ LiveInputs
    \/ Settle /\ LiveInputs

\* The event loop keeps running: a pending timer or delivery is not put off
\* for ever. Callers need not call, pull the stream or settle.
SpecLive == Init /\ [][LiveNext]_vars /\ WF_vars(CallProgress)

RcInit ==
    /\ rcPc = "ready"
    /\ rcData \in ReconcilerResponses
    /\ rcResponse = NoResponse
    /\ selPc = "start"
    /\ selInput = [model |-> UNDEF, authType |-> UNDEF, getModel |-> UNDEF,
                    GEMINI_API_KEY |-> UNDEF, GOOGLE_API_KEY |-> UNDEF,
                    GOOGLE_CLOUD_PROJECT |-> UNDEF, GOOGLE_CLOUD_LOCATION |-> UNDEF,
                    LOCAL_MODEL_ENDPOINT |-> UNDEF]
    /\ contentGeneratorConfig = NoConfig
    /\ selBackend = NoBackend
    /\ selWarned = FALSE
    /\ regQuery = UNDEF
    /\ regCaps = getModelCapabilities(UNDEF)
    /\ regLocal = FALSE
    /\ trPc = "ready"
    /\ trRequest = Request(HiContents, [hasTools |-> FALSE, tools |-> <<>>])
    /\ openAIRequest = NoWireRequest
    /\ gen = LocalContentGenerator("", DEFAULT_QWEN_MODEL, 0)
    /\ pc = "idle"
    /\ op = UNDEF
    /\ callRequest = Request(HiContents, [hasTools |-> FALSE, tools |-> <<>>])
    /\ sentBody = NoWireRequest
    /\ gets = 0
    /\ posts = 0
    /\ clock = 0
    /\ probeScript = NoProbeScript
    /\ probeAnswer = "pending"
    /\ postScript = NoPostScript
    /\ responseStatus = 0
    /\ result = NoResult
    /\ chunks = <<>>
    /\ calls = [i \in Callers |-> IdleCall]
    /\ constructed = gen

RcNext == Reconcile /\ UNCHANGED <<selVars, trVars, adVars, ovVars>>

SpecReconcile == RcInit /\ [][RcNext]_vars

TrInit ==
    /\ trPc = "ready"
    \* every tool list with one conversation, and every conversation with a
    \* few tool lists
    /\ \/ \E f \in DeclSeqs, k \in 0..MaxDecls :
             trRequest = Request(HiContents, ToolsOf(f, k))
       \/ \E c \in ContentsInputs, t \in FewTools : trRequest = Request(c, t)
    /\ openAIRequest = NoWireRequest
    /\ selPc = "start"
    /\ selInput = [model |-> UNDEF, authType |-> UNDEF, getModel |-> UNDEF,
                    GEMINI_API_KEY |-> UNDEF, GOOGLE_API_KEY |-> UNDEF,
                    GOOGLE_CLOUD_PROJECT |-> UNDEF, GOOGLE_CLOUD_LOCATION |-> UNDEF,
                    LOCAL_MODEL_ENDPOINT |-> UNDEF]
    /\ contentGeneratorConfig = NoConfig
    /\ selBackend = NoBackend
    /\ selWarned = FALSE
    /\ regQuery = UNDEF
    /\ regCaps = getModelCapabilities(UNDEF)
    /\ regLocal = FALSE
    /\ rcPc = "ready"
    /\ rcData = WireResponse(FALSE, <<>>, <<>>, UNDEF, FALSE)
    /\ rcResponse = NoResponse
    /\ gen = LocalContentGenerator("", DEFAULT_QWEN_MODEL, 0)
    /\ pc = "idle"
    /\ op = UNDEF
    /\ callRequest = Request(HiContents, [hasTools |-> FALSE, tools |-> <<>>])
    /\ sentBody = NoWireRequest
    /\ gets = 0
    /\ posts = 0
    /\ clock = 0
    /\ probeScript = NoProbeScript
    /\ probeAnswer = "pending"
    /\ postScript = NoPostScript
    /\ responseStatus = 0
    /\ result = NoResult
    /\ chunks = <<>>
    /\ calls = [i \in Callers |-> IdleCall]
    /\ constructed = gen

TrNext == Translate /\ UNCHANGED <<selVars, rcVars, adVars, ovVars>>

SpecTranslate == TrInit /\ [][TrNext]_vars

SelInit ==
    /\ selPc = "start"
    /\ selInput \in SelInputs
    /\ contentGeneratorConfig = NoConfig
    /\ selBackend = NoBackend
    /\ selWarned = FALSE
    /\ regQuery = UNDEF
    /\ regCaps = getModelCapabilities(UNDEF)
    /\ regLocal = FALSE
    /\ trPc = "ready"
    /\ trRequest = Request(HiContents, [hasTools |-> FALSE, tools |-> <<>>])
    /\ openAIRequest = NoWireRequest
    /\ rcPc = "ready"
    /\ rcData = WireResponse(FALSE, <<>>, <<>>, UNDEF, FALSE)
    /\ rcResponse = NoResponse
    /\ gen = LocalContentGenerator("", DEFAULT_QWEN_MODEL, 0)
    /\ pc = "idle"
    /\ op = UNDEF
    /\ callRequest = Request(HiContents, [hasTools |-> FALSE, tools |-> <<>>])
    /\ sentBody = NoWireRequest
    /\ gets = 0
    /\ posts = 0
    /\ clock = 0
    /\ probeScript = NoProbeScript
    /\ probeAnswer = "pending"
    /\ postScript = NoPostScript
    /\ responseStatus = 0
    /\ result = NoResult
    /\ chunks = <<>>
    /\ calls = [i \in Callers |-> IdleCall]
    /\ constructed = gen

SelNext ==
    \/ createContentGeneratorConfig /\ UNCHANGED <<trVars, rcVars, adVars, ovVars>>
    \/ getEffectiveModelResolves /\ UNCHANGED <<trVars, rcVars, adVars, ovVars>>
    \/ StartupProbeSettles /\ UNCHANGED <<trVars, rcVars, adVars, ovVars>>
    \/ createContentGenerator /\ UNCHANGED <<trVars, rcVars, adVars, ovVars>>
    \/ RegistryLookup /\ UNCHANGED <<trVars, rcVars, adVars, ovVars>>

SpecSelect == SelInit /\ [][SelNext]_vars

OvInit ==
    /\ \E config \in AdapterConfigs :
          gen = LocalContentGenerator(config.endpoint, DEFAULT_QWEN_MODEL,
                                      config.timeout)
    /\ constructed = gen
    /\ calls = [i \in Callers |-> IdleCall]
    /\ pc = "idle"
    /\ op = UNDEF
    /\ callRequest = Request(HiContents, [hasTools |-> FALSE, tools |-> <<>>])
    /\ sentBody = NoWireRequest
    /\ gets = 0
    /\ posts = 0
    /\ clock = 0
    /\ probeScript = NoProbeScript
    /\ probeAnswer = "pending"
    /\ postScript = NoPostScript
    /\ responseStatus = 0
    /\ result = NoResult
    /\ chunks = <<>>
    /\ selPc = "start"
    /\ selInput = [model |-> UNDEF, authType |-> UNDEF, getModel |-> UNDEF,
                    GEMINI_API_KEY |-> UNDEF, GOOGLE_API_KEY |-> UNDEF,
                    GOOGLE_CLOUD_PROJECT |-> UNDEF, GOOGLE_CLOUD_LOCATION |-> UNDEF,
                    LOCAL_MODEL_ENDPOINT |-> UNDEF]
    /\ contentGeneratorConfig = NoConfig
    /\ selBackend = NoBackend
    /\ selWarned = FALSE
    /\ regQuery = UNDEF
    /\ regCaps = getModelCapabilities(UNDEF)
    /\ regLocal = FALSE
    /\ trPc = "ready"
    /\ trRequest = Request(HiContents, [hasTools |-> FALSE, tools |-> <<>>])
    /\ openAIRequest = NoWireRequest
    /\ rcPc = "ready"
    /\ rcData = WireResponse(FALSE, <<>>, <<>>, UNDEF, FALSE)
    /\ rcResponse = NoResponse

OvRest ==
    UNCHANGED <<selVars, trVars, rcVars, pc, op, callRequest, sentBody, gets, posts,
                clock, probeScript, probeAnswer, postScript, responseStatus, result,
                chunks>>

OvNext ==
    \/ \E i \in Callers : OvCall(i) /\ OvRest
    \/ \E i \in Callers : OvTick(i) /\ OvRest
    \/ \E i \in Callers : OvProbeResponds(i) /\ OvRest
    \/ \E i \in Callers : OvProbeFails(i) /\ OvRest
    \/ \E i \in Callers : OvProbeTimesOut(i) /\ OvRest
    \/ \E i \in Callers : OvHeadersArrive(i) /\ OvRest
    \/ \E i \in Callers : OvFetchRejects(i) /\ OvRest
    \/ \E i \in Callers : OvTimerFires(i) /\ OvRest
    \/ \E i \in Callers : OvBodyRejects(i) /\ OvRest
    \/ \E i \in Callers : OvBodyArrives(i) /\ OvRest
    \/ \E i \in Callers : OvSettle(i) /\ OvRest

SpecOverlap == OvInit /\ [][OvNext]_vars

(***************************************************************************)
(* Properties                                                              *)
(***************************************************************************)
Finished == pc \in {"returned", "thrown", "generator", "yielded", "streamed"}
Succeeded == pc \in {"returned", "generator", "yielded", "streamed"}

\* C1: whenever checkConnection has answered false, the call has failed with
\* the connectivity error naming the adapter's endpoint, and the call has
\* issued no POST to /v1/chat/completions.
C1_ConnectivityPrecedence ==
    probeAnswer = "false" =>
        /\ pc = "thrown"
        /\ result.kind = "error"
        /\ result.category = "connectivity"
        /\ result.endpoint = gen.endpoint
        /\ posts = 0
        /\ sentBody = NoWireRequest
        /\ postScript = NoPostScript

C1_Witness ==
    /\ probeAnswer = "false"
    /\ probeScript.kind = "response"
    /\ probeScript.status = 503
    /\ gen.endpoint = CustomEndpoint
    /\ result.endpoint = CustomEndpoint
    /\ pc = "thrown"

\* The server's answer to the POST is late: nothing of it is complete within
\* this.timeout.
LateResponse ==
    /\ probeAnswer = "true"
    /\ postScript.failure = "none"
    /\ postScript.bodyAt * TickMs > gen.timeout

\* The number of milliseconds that a printed number of seconds stands for.
RECURSIVE DigitsValue(_)
DigitsValue(digits) ==
    IF digits = <<>> THEN 0
    ELSE 10 * DigitsValue(SubSeq(digits, 1, Len(digits) - 1))
         + (CHOOSE n \in 0..9 : DecimalDigit[n + 1] = digits[Len(digits)])

MillisOfSeconds(text) ==
    LET points == {k \in 1..Len(text) : text[k] = "."}
        point == IF points = {} THEN Len(text) + 1 ELSE CHOOSE k \in points : TRUE
        fraction == SubSeq(text, point + 1, Len(text))
        padded == fraction \o [k \in 1..(3 - Len(fraction)) |-> "0"]
    IN  DigitsValue(SubSeq(text, 1, point - 1)) * 1000 + DigitsValue(padded)

\* C2: a call whose probe succeeded and whose chat-completion response is not
\* there within this.timeout never succeeds, and once it has ended it has
\* failed with the timeout error, which names this.timeout in seconds and is
\* neither the connectivity nor the HTTP-status error.
C2_TimeoutError ==
    LateResponse =>
        /\ ~Succeeded
        /\ Finished =>
              /\ result.kind = "error"
              /\ result.category = "timeout"
              /\ result.category \notin {"connectivity", "http"}
              /\ result.seconds # <<>>
              /\ result.seconds[Len(result.seconds)] # "."
              /\ MillisOfSeconds(result.seconds) = gen.timeout

C2_Witness ==
    /\ LateResponse
    /\ pc = "thrown"
    /\ postScript.status = 200
    /\ postScript.headersAt * TickMs < gen.timeout
    /\ gen.timeout = DefaultTimeoutMs
    /\ result.category = "timeout"
    /\ result.seconds = <<"3", "0">>

\* What the server and the network did to this call made it fail.
CallFailed ==
    \/ probeAnswer = "false"
    \/ /\ probeAnswer = "true"
       /\ \/ postScript.failure # "none"
          \/ ~OkStatus(postScript.status)
          \/ ~postScript.body.isJson
          \/ postScript.bodyAt * TickMs > gen.timeout

\* C3: on every path a call issues at most one GET /v1/models and at most one
\* POST /v1/chat/completions, and a call that met a failure ends by throwing
\* it: it never ends with a response.
C3_NoRetry ==
    /\ gets <= 1
    /\ posts <= 1
    /\ (pc = "thrown") = (result.kind = "error")
    /\ Succeeded => result.kind = "response"
    /\ (Finished /\ CallFailed) => (pc = "thrown" /\ result.kind = "error")
    /\ probeAnswer = "false" => posts = 0

C3_Witness ==
    /\ pc = "thrown"
    /\ gets = 1
    /\ posts = 1
    /\ result.category = "http"

\* The part of the response that stands for tool call i of the wire response.
PartOfToolCall(i) ==
    rcResponse.parts[Len(rcResponse.parts) - Len(rcData.tool_calls) + i]

\* Both parses of the arguments throw.
Unparseable(arguments) ==
    /\ arguments # <<>>
    /\ ~JSONParse(arguments).ok
    /\ ~JSONParse(FixEscaping(arguments)).ok

\* C4: reconciliation gives one part per wire tool call, and for a tool call
\* whose arguments parse neither as they are nor after the escaping repair the
\* part is a function call with the tool call's own name and empty args.
C4_MalformedArguments ==
    rcPc = "reconciled" =>
        /\ rcData.hasChoice =>
              Len(rcResponse.parts) >= Len(rcData.tool_calls)
        /\ \A i \in 1..Len(rcData.tool_calls) :
              (rcData.hasChoice /\ Unparseable(rcData.tool_calls[i].arguments)) =>
                  /\ PartOfToolCall(i).kind = "functionCall"
                  /\ PartOfToolCall(i).name = rcData.tool_calls[i].name
                  /\ PartOfToolCall(i).args = EmptyObject

C4_Witness ==
    /\ rcPc = "reconciled"
    /\ rcData.hasChoice
    /\ Len(rcData.tool_calls) = 1
    /\ rcData.tool_calls[1].arguments = <<"{", "\"", "\\", "n">>
    /\ Unparseable(rcData.tool_calls[1].arguments)
    /\ rcResponse.parts = <<FunctionCallPart("write_file", EmptyObject)>>

\* C5: createContentGeneratorConfig followed by createContentGenerator builds
\* the local adapter whenever the resolved model identifier is a local model of
\* the registry or the auth mode is the local one, whatever the auth mode and
\* the model are otherwise, with the configured or default endpoint.
C5_LocalPrecedence ==
    (/\ selPc \in {"created", "failed"}
     /\ \/ isLocalModel(EffectiveModel(selInput))
        \/ isLocalModel(contentGeneratorConfig.model)
        \/ selInput.authType = USE_LOCAL_MODEL
        \/ contentGeneratorConfig.authType = USE_LOCAL_MODEL) =>
        /\ selPc = "created"
        /\ selBackend.kind = "local"
        /\ selBackend.model = EffectiveModel(selInput)
        /\ selBackend.endpoint =
              OrElse(selInput.LOCAL_MODEL_ENDPOINT, DEFAULT_LOCAL_ENDPOINT)

C5_Witness ==
    /\ selPc = "created"
    /\ selInput.authType = USE_GEMINI
    /\ selInput.GEMINI_API_KEY = "key-g"
    /\ selInput.getModel = UNDEF
    /\ selInput.model = "qwen3-30b-a3b"
    /\ selBackend.kind = "local"

\* fetch resolved with a response whose status is not a success.
ErrorStatusSeen == responseStatus # 0 /\ ~OkStatus(responseStatus)

\* C6 as stated: every call whose probe succeeded and whose chat-completion
\* response has a non-success status ends with the error that embeds the status
\* code and the response body.
C6_AsStated ==
    (Finished /\ probeAnswer = "true" /\ ErrorStatusSeen) =>
        /\ result.kind = "error"
        /\ result.category = "http"
        /\ result.status = responseStatus
        /\ result.errorText = postScript.body.text

\* C6 amended: such a call never succeeds and always fails; it fails with the
\* error embedding the status code and the response body when the body has been
\* read to its end before the timeout; when the timeout fires during the body
\* read it fails with the timeout error, and when the body read itself fails,
\* with that error.
C6_ErrorStatus ==
    (probeAnswer = "true" /\ ErrorStatusSeen) =>
        /\ ~Succeeded
        /\ Finished =>
              /\ result.kind = "error"
              /\ result.category \in {"http", "timeout", "network"}
              /\ result.category = "http" =>
                    /\ result.status = responseStatus
                    /\ result.errorText = postScript.body.text
                    /\ postScript.failure = "none"
              /\ (postScript.failure = "none"
                  /\ postScript.bodyAt * TickMs < gen.timeout) =>
                    /\ result.category = "http"
                    /\ result.errorText = postScript.body.text
              /\ result.category = "timeout" =>
                    postScript.bodyAt * TickMs >= gen.timeout
              /\ result.category = "network" => postScript.failure = "body"

C6_Witness ==
    /\ pc = "thrown"
    /\ probeAnswer = "true"
    /\ responseStatus = 500
    /\ result.category = "http"
    /\ result.status = 500
    /\ result.errorText = "model not loaded"

\* C7: generateContentStream yields exactly one chunk, the response that
\* generateContent makes of the same server answer, and then completes; when
\* the underlying generateContent fails the error is thrown and nothing is
\* yielded.
C7_SingleChunk ==
    /\ Len(chunks) <= 1
    /\ op # "generateContentStream" => chunks = <<>>
    /\ pc \in {"yielded", "streamed"} =>
          /\ op = "generateContentStream"
          /\ chunks = <<convertFromOpenAIFormat(postScript.body.data)>>
          /\ chunks = <<result.response>>
    /\ (op = "generateContentStream" /\ CallFailed /\ Finished) =>
          /\ pc = "thrown"
          /\ result.kind = "error"
          /\ chunks = <<>>
    /\ pc = "thrown" => chunks = <<>>

C7_Witness ==
    /\ pc = "streamed"
    /\ Len(chunks) = 1
    /\ chunks[1].parts = <<FunctionCallPart("write_file", EmptyObject)>>

\* The declarations of the request, in order, and those on the allow-list.
DeclaredFunctions ==
    IF trRequest.hasTools THEN Declarations(trRequest.tools) ELSE <<>>
AllowedFunctions ==
    SelectSeq(DeclaredFunctions, LAMBDA func : func.name \in ALLOW_LIST)

\* C8: the wire tool list holds exactly the declarations whose name is one of
\* the seven allow-listed names, in order; tools and tool_choice are present
\* only when that list is not empty.
C8_ToolAllowList ==
    trPc = "translated" =>
        /\ \A i \in 1..Len(openAIRequest.tools) :
              openAIRequest.tools[i].function.name \in
                  {"list_directory", "read_file", "search_file_content", "glob",
                   "write_file", "replace", "run_shell_command"}
        /\ MapSeq(openAIRequest.tools, LAMBDA t : t.function.name)
              = MapSeq(AllowedFunctions, LAMBDA func : func.name)
        /\ openAIRequest.hasTools = (AllowedFunctions # <<>>)
        /\ openAIRequest.hasTools = (openAIRequest.tools # <<>>)
        /\ (openAIRequest.tool_choice = "auto") = openAIRequest.hasTools
        /\ ~openAIRequest.hasTools => openAIRequest.tool_choice = UNDEF
        /\ DeclaredFunctions = <<>> => ~openAIRequest.hasTools

C8_Witness ==
    /\ trPc = "translated"
    /\ Len(DeclaredFunctions) = 2
    /\ DeclaredFunctions[1].name = "web_fetch"
    /\ DeclaredFunctions[2].name = "replace"
    /\ openAIRequest.hasTools
    /\ Len(openAIRequest.tools) = 1
    /\ openAIRequest.tools[1].function.name = "replace"

\* C9: the wire parameters of an allow-listed declaration are the explicit
\* empty-object schema when its schema is missing or has no key, and its own
\* schema otherwise.
C9_EmptySchema ==
    trPc = "translated" =>
        /\ Len(openAIRequest.tools) = Len(AllowedFunctions)
        /\ \A i \in 1..Len(AllowedFunctions) :
              LET declared == AllowedFunctions[i].parameters
                  wire == openAIRequest.tools[i].function.parameters
              IN  /\ (declared.kind = "undefined" \/ declared.fields = {}) =>
                        wire = Schema("object", {<<"type", "object">>,
                                                 <<"properties", "{}">>})
                  /\ (declared.kind = "object" /\ declared.fields # {}) =>
                        wire = declared

C9_Witness ==
    /\ trPc = "translated"
    /\ Len(AllowedFunctions) = 2
    /\ AllowedFunctions[1].parameters = NoParams
    /\ AllowedFunctions[2].parameters = FullParams
    /\ openAIRequest.tools[1].function.parameters = EmptyObjectSchema
    /\ openAIRequest.tools[2].function.parameters = FullParams

\* The auth modes createContentGenerator has a backend for.
SupportedAuthTypes ==
    {"local-model", "oauth-personal", "gemini-api-key", "vertex-ai"}

\* C11: createContentGenerator fails exactly when the config's auth mode is none
\* of the supported ones, and the error then names that mode; with the local
\* auth mode it returns the local adapter whether or not the startup probe
\* succeeded (a failed probe only prints the warning).
C11_FailsOnlyUnsupported ==
    selPc \in {"created", "failed"} =>
        /\ (selPc = "failed") = (contentGeneratorConfig.authType \notin SupportedAuthTypes)
        /\ selPc = "failed" =>
              /\ selBackend.kind = "error"
              /\ selBackend.authType = contentGeneratorConfig.authType
        /\ selPc = "created" => selBackend.kind \in {"local", "codeAssist", "googleGenAI"}
        /\ contentGeneratorConfig.authType = "local-model" =>
              /\ selPc = "created"
              /\ selBackend.kind = "local"
              /\ selBackend.model = contentGeneratorConfig.model
        /\ selWarned =>
              /\ selPc = "created"
              /\ selBackend.kind = "local"

C11_Witness ==
    /\ selPc = "created"
    /\ selWarned
    /\ selBackend.kind = "local"
    /\ selBackend.endpoint = CustomEndpoint
    /\ selInput.authType = UNDEF

\* The canonical termination reasons: stop, tool-call, length, other, in the
\* spec's spelling or in the upper-case spelling of the code's own default.
TerminationReasons ==
    {"stop", "tool-call", "length", "other", "STOP", "TOOL_CALL", "LENGTH", "OTHER"}

\* C12: the termination reason of every reconciled response is one of the
\* canonical reasons stop, tool-call, length, other, and it is stop when the
\* wire response has no finish reason.
C12_TerminationReason ==
    rcPc = "reconciled" =>
        /\ rcResponse.finishReason \in TerminationReasons
        /\ (~rcData.hasChoice \/ rcData.finish_reason \in {UNDEF, ""}) =>
              rcResponse.finishReason \in {"stop", "STOP"}

\* C13: in every reconciled response the args of every function-call part is
\* an object, whatever the wire arguments were (absent, empty, parseable,
\* repairable or malformed), and there is one such part per wire tool call.
C13_ArgsAreObjects ==
    rcPc = "reconciled" =>
        /\ \A i \in 1..Len(rcResponse.parts) :
              rcResponse.parts[i].kind = "functionCall" =>
                  rcResponse.parts[i].args.kind = "object"
        /\ rcData.hasChoice =>
              Len(SelectSeq(rcResponse.parts, LAMBDA part : part.kind = "functionCall"))
                  = Len(rcData.tool_calls)

\* The GET of the probe completed with a success status within the probe's
\* own timeout.
ProbeSucceeded ==
    /\ probeScript.kind = "response"
    /\ probeScript.status >= 200 /\ probeScript.status <= 299
    /\ probeScript.at * TickMs <= 5000

\* C14: checkConnection answers true or false and never raises: it answers
\* true only when the GET completed with a 2xx status within its 5 seconds,
\* and false on a network error, on another status and on the expiry of its
\* timeout; a call that ended before any POST ended with the connectivity
\* error, never with the probe's own failure.
C14_ProbeNeverRaises ==
    /\ probeAnswer \in {"pending", "true", "false"}
    /\ pc = "probing" => probeAnswer = "pending"
    /\ pc \notin {"idle", "probing"} => probeAnswer \in {"true", "false"}
    /\ probeAnswer = "true" => ProbeSucceeded
    /\ (probeAnswer # "pending" /\ probeScript.at * TickMs < 5000) =>
          (probeAnswer = "true") = ProbeSucceeded
    /\ (probeAnswer # "pending"
        /\ \/ probeScript.kind = "network_error"
           \/ probeScript.status \notin 200..299
           \/ probeScript.at * TickMs > 5000) => probeAnswer = "false"
    /\ (pc = "thrown" /\ posts = 0) =>
          /\ result.name = "Error"
          /\ result.category = "connectivity"

C14_Witness ==
    /\ pc = "thrown"
    /\ probeAnswer = "false"
    /\ probeScript.kind = "response"
    /\ probeScript.status = 204
    /\ probeScript.at * TickMs > ProbeTimeoutMs
    /\ clock * TickMs = ProbeTimeoutMs
    /\ result.category = "connectivity"

\* What a single generateContent call on the instance `self` can end with, and
\* the body it has POSTed by then, given its own request, what the server does
\* with its GET (probe) and what the server does with its POST (post; the
\* unsent script when no POST was issued). An event due exactly when a timer
\* expires may fall on either side.
AloneOutcomes(self, request, probe, post) ==
    LET okProbe == /\ probe.kind = "response"
                   /\ probe.status \in 200..299
        mayConnect == okProbe /\ probe.at * TickMs <= ProbeTimeoutMs
        mayNotConnect == ~okProbe \/ probe.at * TickMs >= ProbeTimeoutMs
        body == convertToOpenAIFormat(request, self.model)
        ended(r) == [result |-> r, sentBody |-> body]
        timeoutError ==
            [Thrown("Error", "timeout") EXCEPT !.seconds = SecondsText(self.timeout)]
        headersLate == post.headersAt * TickMs >= self.timeout
        headersInTime == post.headersAt * TickMs <= self.timeout
        bodyLate == post.bodyAt * TickMs >= self.timeout
        bodyInTime == post.bodyAt * TickMs <= self.timeout
    IN  {[result |-> ConnectivityError(self), sentBody |-> NoWireRequest] :
            x \in {y \in {1} : mayNotConnect /\ post = NoPostScript}}
        \cup {ended(timeoutError) :
                 x \in {y \in {1} : /\ mayConnect /\ post # NoPostScript
                                     /\ \/ headersLate
                                        \/ post.failure # "fetch" /\ bodyLate}}
        \cup {ended(Thrown("TypeError", "network")) :
                 x \in {y \in {1} : /\ mayConnect /\ post # NoPostScript
                                     /\ \/ post.failure = "fetch" /\ headersInTime
                                        \/ post.failure = "body" /\ bodyInTime}}
        \cup {ended(ApiError(post.status, post.body.text)) :
                 x \in {y \in {1} : /\ mayConnect /\ post # NoPostScript
                                     /\ post.failure = "none" /\ bodyInTime
                                     /\ post.status \notin 200..299}}
        \cup {ended(Thrown("SyntaxError", "syntax")) :
                 x \in {y \in {1} : /\ mayConnect /\ post # NoPostScript
                                     /\ post.failure = "none" /\ bodyInTime
                                     /\ post.status \in 200..299
                                     /\ ~post.body.isJson}}
        \cup {ended(Returned(convertFromOpenAIFormat(post.body.data))) :
                 x \in {y \in {1} : /\ mayConnect /\ post # NoPostScript
                                     /\ post.failure = "none" /\ bodyInTime
                                     /\ post.status \in 200..299
                                     /\ post.body.isJson}}

\* C16: however the steps of overlapping generateContent calls interleave,
\* every call that has ended has the outcome and has sent the body that a
\* call alone would have had with its own request, probe answer and HTTP
\* answer, each call issues at most one GET and one POST, and the instance
\* keeps the endpoint, model and timeout its constructor set.
C16_Isolation ==
    /\ gen = constructed
    /\ \A i \in Callers :
          /\ calls[i].gets <= 1
          /\ calls[i].posts <= 1
          /\ calls[i].pc \in {"posting", "reading"} =>
                calls[i].sentBody = convertToOpenAIFormat(calls[i].request,
                                                          constructed.model)
          /\ calls[i].pc \in {"returned", "thrown"} =>
                [result |-> calls[i].result, sentBody |-> calls[i].sentBody] \in
                    AloneOutcomes(constructed, calls[i].request,
                                  calls[i].probeScript, calls[i].postScript)

\* Both calls are past their probe at once with different requests, one ended
\* with its response while the other is still waiting for its own.
C16_Witness ==
    /\ calls["a"].pc = "returned"
    /\ calls["b"].pc = "reading"
    /\ calls["a"].request # calls["b"].request
    /\ calls["a"].postScript.body.text = "tool-call-json"
    /\ calls["b"].postScript.status = 500
    /\ calls["a"].result.response.parts = <<FunctionCallPart("write_file", EmptyObject)>>

\* The flattened text of the request's turns, in order: the string itself, or
\* the joined part texts of each array element that has a role and parts.
TurnTexts ==
    IF trRequest.contentsKind = "string" THEN <<trRequest.text>>
    ELSE IF trRequest.contentsKind = "array"
    THEN MapSeq(SelectSeq(trRequest.contents,
                          LAMBDA content : /\ content.role \notin {UNDEF, ""}
                                           /\ content.hasParts),
                ContentText)
    ELSE <<>>

\* C17: the wire request starts with the system message, every message after
\* it has content that is not empty after trimming, and those messages are
\* the turns with non-blank text in their original order, so that a turn
\* whose text is empty or only white space gives no message.
C17_NoBlankMessages ==
    trPc = "translated" =>
        /\ Len(openAIRequest.messages) >= 1
        /\ openAIRequest.messages[1].role = "system"
        /\ \A i \in 2..Len(openAIRequest.messages) :
              Trim(openAIRequest.messages[i].content) # <<>>
        /\ MapSeq(Tail(openAIRequest.messages), LAMBDA m : m.content)
              = SelectSeq(TurnTexts, LAMBDA text : Trim(text) # <<>>)

Pending == pc \in {"probing", "posting", "reading"}

\* C18 as stated (its part on the outcome): a call that has ended has ended
\* with a reconciled response, the connectivity error, the upstream-HTTP error
\* or the timeout error.
C18_AsStated ==
    Finished =>
        \/ result.kind = "response"
        \/ result.kind = "error"
           /\ result.category \in {"connectivity", "http", "timeout"}

\* How an ended call ended: with a response and no error, or with exactly
\* one error, of one of the named kinds or another one rethrown as it was.
EndedProperly ==
    /\ result.kind \in {"response", "error"}
    /\ result.kind = "response" =>
          /\ Succeeded
          /\ result.category = UNDEF
          /\ probeAnswer = "true"
    /\ result.kind = "error" =>
          /\ pc = "thrown"
          /\ result.response = NoResponse
          /\ result.category \in
                {"connectivity", "http", "timeout", "network", "syntax"}
          /\ (result.category = "connectivity") = (probeAnswer = "false")
          /\ result.category \in {"connectivity", "http", "timeout"} =>
                result.name = "Error"
          /\ result.category = "network" =>
                /\ result = FetchFailed
                /\ postScript.failure \in {"fetch", "body"}
          /\ result.category = "syntax" =>
                /\ result = BadJson
                /\ ~postScript.body.isJson

\* C18 amended: with its timers running, every call that is pending
\* eventually ends, and it ends in exactly one of: a reconciled response, the
\* connectivity error, the upstream-HTTP error, the timeout error, or the
\* error of a failed POST, body read or JSON parse, rethrown as it was.
C18_Completes ==
    /\ [](Finished => EndedProperly)
    /\ (Pending ~> Finished)

C18_Witness ==
    /\ pc = "thrown"
    /\ probeAnswer = "true"
    /\ postScript.status = 200
    /\ postScript.bodyAt * TickMs < gen.timeout
    /\ result.name = "SyntaxError"
    /\ result.category = "syntax"

\* C10: for an identifier that is no key of the capability table,
\* getModelCapabilities gives the default descriptor and isLocalModel false.
C10_RegistryTotal ==
    (regQuery # UNDEF /\ regQuery \notin DOMAIN MODEL_CAPABILITIES) =>
        /\ regCaps.kind = "descriptor"
        /\ regCaps.desc = Descriptor(4096, FALSE, TRUE, FALSE, "unknown")
        /\ regLocal = FALSE

====
